---- MODULE Spec2Model ----
(***************************************************************************)
(* State-machine model of the task coordination core of task-manager:      *)
(* src/src/core/task_manager.py (TaskManager), the Celery result store and *)
(* broker it talks to, the workers of src/src/workers and the admin        *)
(* notification of src/src/monitoring/notification.py; of the scratch      *)
(* storage of src/src/utils/storage.py, the API handlers of                *)
(* src/src/api/main.py, the ModelRegistry of src/src/workers/gpu_worker.py *)
(* and the pipeline of src/examples/image_super_resolution.py; and of the  *)
(* routes and the metrics hooks of src/src/core/celery_app.py with the     *)
(* counters of src/src/monitoring/metrics.py.                              *)
(*                                                                         *)
(* The broker queue and the result store are external: they are modelled   *)
(* by what the calls the code makes do to them (apply_async publishes one  *)
(* message, AsyncResult reads the stored meta, revoke broadcasts the id to *)
(* the workers).  get_task_status is modelled read by read, because each   *)
(* result.state / result.info is a separate read of the store and other    *)
(* callers and the workers run between them.                               *)
(***************************************************************************)
EXTENDS Integers, Sequences, FiniteSets, TLC

\* ------------------------------------------------------------------ bounds
\* Task ids the broker can hand out in one run (uuid4 values, numbered).
MaxIds == 3
\* Tasks submitted in one run of the tracking specification.
MaxTracked == 2
\* Latest instant of the clock, in seconds.
MaxTime == 31
\* get_task_status calls made in one run, over all callers.
MaxPolls == 2
\* Concurrent callers of get_task_status.
NumCallers == 2
\* Longest timeout handed to wait_for_task, in seconds.
MaxWaitTimeout == 2
\* Longest poll_interval handed to wait_for_task, in seconds.
MaxInterval == 2
\* Threads of a worker process that call ModelRegistry.load_model.
NumThreads == 2

\* ------------------------------------------------------- program constants
\* settings.task_queue_timeout
task_queue_timeout == 30
\* settings.task_default_timeout
task_default_timeout == 300
\* max_retries of download_image / upload_result
max_retries == 3

\* celery_app.tasks: the names the worker modules register.
Registered ==
    { "download_image", "upload_result", "classify_image", "encode_result",
      "gpu_inference_general", "gpu_inference_portrait", "gpu_inference_landscape" }

\* Tasks whose body ends in `raise self.retry(exc=exc)`.
Retrying == { "download_image", "upload_result" }

\* Task names submitted in the submission specification: a registered
\* task and a name no worker module registers.
SubmitNames == { "classify_image", "nonexistent_task" }

\* Task names submitted where the workers run: a task that fails at its
\* first exception and one that retries.
TrackNames == { "classify_image", "download_image" }

\* Queue named by a SubTaskConfig of this model.
ConfigQueues == { "cpu_queue" }

\* class TaskState: the strings TaskState(...) accepts.
TaskState == { "PENDING", "RECEIVED", "STARTED", "SUCCESS", "FAILURE", "TIMEOUT", "REVOKED" }

\* The terminal states wait_for_task tests for.
Terminal == { "SUCCESS", "FAILURE", "TIMEOUT", "REVOKED" }

\* celery.states.READY_STATES: AsyncResult caches a meta read in one of them.
READY_STATES == { "SUCCESS", "FAILURE", "REVOKED" }

TaskIds == 1 .. MaxIds
\* The parent_task_id values of this model: the first id a run issues and
\* the last of the id space.
ParentIds == { 1, MaxIds }
\* Longest subtask_configs list handed to submit_subtasks: one id is left
\* for a task submitted on its own.
MaxConfigs == MaxIds - 1
NoId == 0
Callers == 1 .. NumCallers
\* The clock moves to the instants at which a queue wait equals or exceeds
\* the threshold.
TickSteps == { task_queue_timeout, task_queue_timeout + 1 }

VARIABLES
    now,        \* datetime.utcnow(), in seconds
    store,      \* result backend: task id -> stored meta
    queue,      \* broker: messages published and not yet taken by a worker
    running,    \* messages a worker is executing
    nextId,     \* number of the next uuid the broker client draws
    revoked,    \* ids the workers hold as revoked
    revokes,    \* task id -> revoke(terminate=True) requests issued
    notified,   \* task id -> notify_admin_timeout calls made
    gs,         \* caller -> frame of its get_task_status call
    polls,      \* get_task_status calls begun by callers of their own
    ret,        \* outcome of the latest submit_task / submit_subtasks call
    returned,   \* history: the ids submit calls have returned, in order
    children,   \* history: parent id -> subtasks submitted under it
    observed,   \* history: task id -> first terminal state get_task_status returned
    submitted,  \* history: task id -> instant submit_task returned it (-1: never)
    ws,         \* caller -> frame of its wait_for_task call
    fs,         \* scratch storage: path under shared_tmp_path -> what is there
    sret,       \* outcome of the latest storage call
    http,       \* frame and response of the API request being served
    background, \* BackgroundTasks: cleanups scheduled and not yet run
    pipe,       \* frame of the image_super_resolution_pipeline run
    registry,   \* ModelRegistry._models and the load_model calls on it
    mon         \* src/monitoring: TaskMetrics and the latest notify_admin_failure

vars == << now, store, queue, running, nextId, revoked, revokes, notified,
           gs, polls, ret, returned, children, observed, submitted, ws, fs,
           sret, http, background, pipe, registry, mon >>

\* ------------------------------------------------------------ result store
\* Stored meta {status, result}.  kind tells what `result` holds:
\* "none" (None), "envelope" (a dict with "submitted_at" = at), "started"
\* (the worker's {pid, hostname}), "value" (the return value), "exc".
Meta(status, kind, at) == [status |-> status, kind |-> kind, at |-> at]

\* backend.get_task_meta for an id the store has no entry for.
PendingMeta == Meta("PENDING", "none", 0)

\* ---------------------------------------------------------------- routing
\* Task names are written as the sequence of their dotted components:
\* "src.workers.io_worker.x" is << "src", "workers", "io_worker", "x" >>.
\* @celery_app.task(name="download_image", ...): every task of the worker
\* modules is registered under the name its decorator gives, one component.
TaskName(name) == << name >>

\* celery_app.conf.task_routes, with the queue names of Settings, in the
\* order of the dict.
task_routes ==
    << [pattern |-> << "src", "workers", "io_worker", "*" >>, queue |-> "io"],
       [pattern |-> << "src", "workers", "cpu_worker", "*" >>, queue |-> "cpu"],
       [pattern |-> << "src", "workers", "gpu_worker", "gpu_inference_general" >>,
        queue |-> "gpu-general"],
       [pattern |-> << "src", "workers", "gpu_worker", "gpu_inference_portrait" >>,
        queue |-> "gpu-portrait"],
       [pattern |-> << "src", "workers", "gpu_worker", "gpu_inference_landscape" >>,
        queue |-> "gpu-landscape"] >>

\* Celery's MapRoute: a key that ends in "*" is a glob the whole task name
\* must match, any other key must equal the task name.
RouteMatches(pattern, n) ==
    IF pattern[Len(pattern)] = "*"
    THEN /\ Len(n) >= Len(pattern)
         /\ SubSeq(n, 1, Len(pattern) - 1) = SubSeq(pattern, 1, Len(pattern) - 1)
    ELSE n = pattern

\* The queue apply_async publishes a task on when it is given none: the
\* queue of the first route its registered name matches, else the app's
\* default queue, "celery" (task_default_queue is not set).
RouteFor(name) ==
    LET hits == { i \in 1 .. Len(task_routes) :
                     RouteMatches(task_routes[i].pattern, TaskName(name)) }
    IN IF hits = {}
       THEN "celery"
       ELSE task_routes[CHOOSE i \in hits : \A j \in hits : i <= j].queue

\* A broker message: the task, its queue, the rest of its chain (ids and
\* names still to publish) and the retries made so far.
Message(id, name, q, rest) ==
    [id |-> id, name |-> name, queue |-> q, chain |-> rest, retries |-> 0]

\* ------------------------------------------------------------ id generation
\* celery.utils.uuid(): the k-th id drawn after n ids have been drawn.
FreshIdReused(n, k) == 1

FreshId(n, k) == n + k - 1

\* ----------------------------------------------------------- TaskStatus
NoError == [present |-> FALSE, text |-> "", wait |-> 0]
QueueTimeoutError(w) == [present |-> TRUE, text |-> "Task timeout after s in queue", wait |-> w]
ExcError == [present |-> TRUE, text |-> "exc", wait |-> 0]
ClientTimeoutError == [present |-> TRUE, text |-> "Client timeout", wait |-> 0]

\* "timeout" in text: the error texts of the program that hold the word.
MentionsTimeout(text) ==
    text \in { "Client timeout", "Task timeout after s in queue" }

\* TaskStatus(task_id=..., state=..., result=..., error=...); subtasks takes
\* its default, the empty list.
NewStatus(tid, state) ==
    [task_id |-> tid, state |-> state, result |-> "None", error |-> NoError,
     subtasks |-> << >>]

NoStatus == NewStatus(NoId, "PENDING")

\* notification.py: the channels notify_admin_timeout delivers on, each
\* one when its setting (admin_webhook_url, admin_email) is set.
Channels == { "webhook", "email" }

\* The frame of a get_task_status call: where it stands (pc, named by the
\* line it is about to run), its task_id, the meta its AsyncResult has
\* cached, its status object and the exception it ended with.  wait is the
\* wait_time line 130 computed (-1: no envelope was read); didRevoke and
\* didNotify tell whether the call ran lines 137 and 140.  prior, kids and
\* undelivered are history: the terminal state already reported for the id
\* and the subtasks already submitted under it when the call began, the
\* notification channels whose delivery raised and the deliveries
\* attempted on each channel.
IdleFrame ==
    [pc |-> "idle", tid |-> NoId, cache |-> PendingMeta, cached |-> FALSE,
     status |-> NoStatus, exc |-> "None", wait |-> -1,
     didRevoke |-> FALSE, didNotify |-> FALSE,
     prior |-> "None", kids |-> 0, undelivered |-> {},
     attempts |-> [ch \in Channels |-> 0]]

\* What a submit call hands its caller: the exception it raises ("ok" when
\* it returns) and the ids it returns; parallel is the mode it was called in
\* and bad the position of the config a ValueError names (0 when none).
Ret(op, parallel, outcome, ids) ==
    [op |-> op, parallel |-> parallel, outcome |-> outcome, ids |-> ids,
     bad |-> 0]

NoRet == Ret("none", FALSE, "none", << >>)

\* The frame of a wait_for_task call: where it stands (pc, named by the
\* line it is about to run), its task_id, its timeout (-1 is None) and
\* poll_interval, the start_time line 164 took, the status of its latest
\* get_task_status call and the exception it ended with.  client tells that
\* it returned from line 182; npolls, seen and acted are history: the
\* get_task_status calls it has made, the states they returned and whether
\* one of them revoked or notified; nsleeps and slept: the time.sleep calls
\* it has made and the seconds they lasted together.
IdleWait ==
    [pc |-> "idle", tid |-> NoId, timeout |-> -1, interval |-> 1, start |-> 0,
     status |-> NoStatus, exc |-> "None", client |-> FALSE, npolls |-> 0,
     seen |-> << >>, acted |-> FALSE, nsleeps |-> 0, slept |-> 0]

\* The frame of an API request: the handler (op), where it stands (pc,
\* named by the line it is about to run), the request's sync flag and task
\* id, and the response: its status code, the state or the status text of
\* its body.  scheduled and cleanups are history: the add_task calls and
\* the cleanup_task calls the handler made.
IdleRequest ==
    [pc |-> "idle", op |-> "none", sync |-> FALSE, tid |-> NoId, sid |-> << >>,
     code |-> 0, state |-> "None", scheduled |-> 0, cleanups |-> 0]

\* ------------------------------------------------ super-resolution pipeline
\* The frame of an image_super_resolution_pipeline run: where it stands
\* (pc, named by the line it is about to run), the category the classifier
\* returned, the queue and the task name lines 81-82 chose, the exception
\* the run ended with, and, as history, the (task name, queue) pairs it has
\* published with apply_async.
IdlePipe ==
    [pc |-> "idle", tid |-> << >>, category |-> "none", gpu_queue |-> "none",
     gpu_task_name |-> "none", exc |-> "None", sent |-> << >>]

\* ------------------------------------------------------------ ModelRegistry
\* The threads that call ModelRegistry.load_model and the model names
\* they ask for.
Threads == 1 .. NumThreads
ModelNames == { "general", "portrait" }

\* A model object is told from every other by the load that made it: loads
\* are numbered in the order their dict literals are evaluated (0: none).
NoModel == 0

\* The frame of a load_model call: where it stands, the name it was called
\* with and the object it returned.
IdleLoad == [pc |-> "idle", name |-> "none", model |-> NoModel]

\* ModelRegistry._models, empty as the class statement leaves it; made,
\* loads and got are history: the objects made so far, the loads done for
\* each name and the objects load_model has returned for it.
EmptyRegistry ==
    [models |-> [n \in ModelNames |-> NoModel],
     th |-> [t \in Threads |-> IdleLoad],
     made |-> 0,
     loads |-> [n \in ModelNames |-> 0],
     got |-> [n \in ModelNames |-> {}]]

\* --------------------------------------------------------------- monitoring
\* The label values of the tasks_completed counter: (task_name, status).
CompletedLabels == (Registered \cup { "unknown" }) \X { "success", "failure" }

\* A notification call: the function, the channels configured, those whose
\* delivery raises, the deliveries attempted on each channel and the
\* exception the call ended with.
IdleNote ==
    [op |-> "none", conf |-> {}, failed |-> {},
     attempts |-> [ch \in Channels |-> 0], exc |-> "None"]

\* task_metrics = TaskMetrics(): the counters at zero and no start time;
\* tasks_submitted is the sum over its task_name labels.  note is the
\* latest notify_admin_failure call.
NewMetrics ==
    [tasks_submitted |-> 0,
     tasks_completed |-> [l \in CompletedLabels |-> 0],
     start_times |-> {},
     note |-> IdleNote]

\* --------------------------------------------------------- scratch storage
\* Paths are relative to settings.shared_tmp_path and written as their
\* sequence of components: the task id "A/d" is << "A", "d" >>, as
\* Path(shared_tmp_path) / task_id reads it.
ScratchIds == { << "A" >>, << "B" >>, << "A", "d" >> }

\* File names handed to save_task_data / load_task_data: "f" and "d/f".
FileNames == { << "f" >>, << "d", "f" >> }

\* File contents: the empty byte string and two others.
Bytes == { "", "x", "y" }

Prefixes(p) == { SubSeq(p, 1, k) : k \in 1 .. Len(p) }

IsPrefix(p, q) == Len(p) <= Len(q) /\ SubSeq(q, 1, Len(p)) = p

Parent(p) == SubSeq(p, 1, Len(p) - 1)

\* Every path the calls of this model can name.
Paths == UNION { Prefixes(id \o name) : id \in ScratchIds, name \in FileNames }

Absent == [kind |-> "absent", data |-> ""]
Dir == [kind |-> "dir", data |-> ""]
File(data) == [kind |-> "file", data |-> data]

\* What a storage call hands its caller: the exception it raises ("ok"
\* when it returns), the path or the bytes it returns, and whether it
\* logged an error it caught.  removed and fault are history: the paths the
\* call deleted and the file system fault it met.
SRet(op, id, name, outcome, path, data, logged) ==
    [op |-> op, id |-> id, name |-> name, outcome |-> outcome, path |-> path,
     data |-> data, logged |-> logged, removed |-> {}, fault |-> "none"]

NoSRet == SRet("none", << >>, << >>, "none", << >>, "", FALSE)

Init ==
    /\ now = 0
    /\ store = [t \in TaskIds |-> PendingMeta]
    /\ queue = {}
    /\ running = {}
    /\ nextId = 1
    /\ revoked = {}
    /\ revokes = [t \in TaskIds |-> 0]
    /\ notified = [t \in TaskIds |-> 0]
    /\ gs = [c \in Callers |-> IdleFrame]
    /\ polls = 0
    /\ ret = NoRet
    /\ returned = << >>
    /\ children = [t \in TaskIds |-> 0]
    /\ observed = [t \in TaskIds |-> "None"]
    /\ submitted = [t \in TaskIds |-> -1]
    /\ ws = [c \in Callers |-> IdleWait]
    /\ fs = [p \in Paths |-> Absent]
    /\ sret = NoSRet
    /\ http = IdleRequest
    /\ background = << >>
    /\ pipe = IdlePipe
    /\ registry = EmptyRegistry
    /\ mon = NewMetrics

\* ------------------------------------------------------------------- clock
Tick ==
    /\ \E d \in TickSteps :
          /\ now + d <= MaxTime
          /\ now' = now + d
    /\ UNCHANGED << store, queue, running, nextId, revoked, revokes, notified,
                    gs, polls, ret, returned, children, observed >>
    /\ UNCHANGED << submitted, ws, fs, sret, http, background, pipe, registry, mon >>

\* celery_app.tasks.get(name): whether the name resolves to a task.
ResolvesAny(name) == TRUE

Resolves(name) == name \in Registered

\* ------------------------------------------------------------- submit_task
\* TaskManager.submit_task(task_name): `fails` is the broker refusing the
\* publish (apply_async raises, nothing is enqueued).
SubmitTaskCall(name, fails) ==
    /\ IF ~Resolves(name)
       THEN /\ ret' = Ret("submit_task", FALSE, "ValueError", << >>)
            /\ UNCHANGED << queue, nextId, returned, submitted >>
       ELSE IF fails
       THEN /\ ret' = Ret("submit_task", FALSE, "OperationalError", << >>)
            /\ UNCHANGED << queue, nextId, returned, submitted >>
       ELSE LET id == FreshId(nextId, 1) IN
            /\ nextId <= MaxIds
            /\ queue' = queue \cup { Message(id, name, RouteFor(name), << >>) }
            /\ nextId' = nextId + 1
            /\ ret' = Ret("submit_task", FALSE, "ok", << id >>)
            /\ returned' = Append(returned, id)
            /\ submitted' = [submitted EXCEPT ![id] = now]
    /\ UNCHANGED << now, store, running, revoked, revokes, notified, gs, polls,
                    children, observed >>
    /\ UNCHANGED << ws, fs, sret, background, pipe, registry, mon >>

\* submit_task called by a client of TaskManager other than the API.
SubmitTask(name, fails) == SubmitTaskCall(name, fails) /\ UNCHANGED http

\* --------------------------------------------------------- submit_subtasks
\* A parent_task_id is an id issued earlier or an id of the caller's own
\* making: never one of the uuids the call itself is about to draw.
ParentOk(parent, cfgs) == parent < nextId \/ parent >= nextId + Len(cfgs)

\* The subtask_configs lists of this model: each config is its task name,
\* its queue is the one of ConfigQueues.
ConfigLists == UNION { [1 .. n -> SubmitNames] : n \in 0 .. MaxConfigs }

ConfigQueue == CHOOSE q \in ConfigQueues : TRUE

\* The loop of lines 75-87: position of the first config whose name is not
\* registered, 0 when every name resolves.
FirstInvalid(cfgs) ==
    IF \E i \in 1 .. Len(cfgs) : ~Resolves(cfgs[i])
    THEN CHOOSE i \in 1 .. Len(cfgs) :
            /\ ~Resolves(cfgs[i])
            /\ \A j \in 1 .. (i - 1) : Resolves(cfgs[j])
    ELSE 0

\* What the loop of lines 75-87 has published when it raises at config i:
\* it only builds signatures, so nothing.
PublishedBeforeInvalidEager(cfgs, i, n0) ==
    { Message(FreshId(n0, j), cfgs[j], ConfigQueue, << >>) : j \in 1 .. (i - 1) }

PublishedBeforeInvalid(cfgs, i, n0) == {}

\* group(tasks).apply_async(): the messages of the first k signatures, each
\* under its own fresh id.
GroupMessages(cfgs, k, n0) ==
    { Message(FreshId(n0, j), cfgs[j], ConfigQueue, << >>) : j \in 1 .. k }

\* [r.id for r in result.results]: the ids of the group, in config order.
GroupIds(cfgs, n0) == [j \in 1 .. Len(cfgs) |-> FreshId(n0, j)]

\* chain(tasks).apply_async(): one message, the first stage, carrying the
\* later stages (frozen under their own ids) to publish as each one succeeds.
ChainRest(cfgs, n0) ==
    [j \in 1 .. (Len(cfgs) - 1) |-> [id |-> FreshId(n0, j + 1), name |-> cfgs[j + 1]]]

ChainMessage(cfgs, n0) ==
    Message(FreshId(n0, 1), cfgs[1], ConfigQueue, ChainRest(cfgs, n0))

\* result.id of the chain: the AsyncResult of its last stage.
ChainId(cfgs, n0) == FreshId(n0, Len(cfgs))

\* What the caller gets when the k-th publish raises: the exception, no list.
IdsOnEnqueueFailurePartial(cfgs, k, n0) == [j \in 1 .. (k - 1) |-> FreshId(n0, j)]

IdsOnEnqueueFailure(cfgs, k, n0) == << >>

SubRet(parallel, outcome, ids) == Ret("submit_subtasks", parallel, outcome, ids)

\* The set of the elements of a sequence.
Range(seq) == { seq[i] : i \in 1 .. Len(seq) }

\* TaskManager.submit_subtasks(parent, cfgs, parallel).  failAt = k > 0 is the
\* broker refusing the k-th publish of the call; 0 is no refusal.
SubmitSubtasks(parent, cfgs, parallel, failAt) ==
    LET n == Len(cfgs)
        bad == FirstInvalid(cfgs)
    IN
    /\ failAt <= (IF parallel THEN n ELSE IF n > 0 THEN 1 ELSE 0)
    /\ IF bad > 0
       THEN \* line 78: raise ValueError
            /\ failAt = 0
            /\ queue' = queue \cup PublishedBeforeInvalid(cfgs, bad, nextId)
            /\ ret' = [SubRet(parallel, "ValueError", << >>) EXCEPT !.bad = bad]
            /\ UNCHANGED << nextId, returned, children >>
       ELSE IF parallel
       THEN IF failAt > 0
            THEN \* the failAt-th publish raises; the earlier ones are out
                 /\ nextId + failAt - 2 <= MaxIds
                 /\ queue' = queue \cup GroupMessages(cfgs, failAt - 1, nextId)
                 /\ nextId' = nextId + failAt - 1
                 /\ ret' = SubRet(parallel, "OperationalError",
                                  IdsOnEnqueueFailure(cfgs, failAt, nextId))
                 /\ UNCHANGED << returned, children >>
            ELSE /\ nextId + n - 1 <= MaxIds
                 /\ queue' = queue \cup GroupMessages(cfgs, n, nextId)
                 /\ nextId' = nextId + n
                 /\ ret' = SubRet(parallel, "ok", GroupIds(cfgs, nextId))
                 /\ returned' = returned \o GroupIds(cfgs, nextId)
                 /\ children' = [children EXCEPT ![parent] = @ + n]
       ELSE IF n = 0
       THEN \* chain([]): Celery builds an empty chain whose apply_async()
            \* returns None, so that result.id raises AttributeError, or,
            \* in releases that reduce the list without an initial value,
            \* raises TypeError in chain(tasks) itself
            /\ \E e \in { "AttributeError", "TypeError" } :
                  ret' = SubRet(parallel, e, << >>)
            /\ UNCHANGED << queue, nextId, returned, children >>
       ELSE IF failAt > 0
       THEN /\ ret' = SubRet(parallel, "OperationalError",
                             IdsOnEnqueueFailure(cfgs, failAt, nextId))
            /\ UNCHANGED << queue, nextId, returned, children >>
       ELSE /\ nextId + n - 1 <= MaxIds
            /\ queue' = queue \cup { ChainMessage(cfgs, nextId) }
            /\ nextId' = nextId + n
            /\ ret' = SubRet(parallel, "ok", << ChainId(cfgs, nextId) >>)
            /\ returned' = Append(returned, ChainId(cfgs, nextId))
            /\ children' = [children EXCEPT ![parent] = @ + n]
    /\ UNCHANGED << now, store, running, revoked, revokes, notified, gs, polls,
                    observed >>
    /\ UNCHANGED << submitted, ws, fs, sret, http, background, pipe, registry, mon >>

\* ------------------------------------------------------------------ metrics
\* TaskMetrics.task_submitted(task_name): the counter goes up by one.  No
\* code of the repository calls it: submit_task and the API handler leave
\* the counter alone.
TaskSubmitted(m, name) == [m EXCEPT !.tasks_submitted = @ + 1]

\* TaskMetrics.task_started(task_id, task_name): the start time is noted.
TaskStarted(m, id, name) == [m EXCEPT !.start_times = @ \cup { id }]

\* TaskMetrics.task_completed(task_id, task_name, success): the counter of
\* (task_name, status) goes up by one and the start time of the id, if
\* there is one, is deleted.
TaskCompleted(m, id, name, success) ==
    [m EXCEPT !.tasks_completed[<< name, IF success THEN "success" ELSE "failure" >>] = @ + 1,
              !.start_times = @ \ { id }]

\* ------------------------------------------------------------------ workers
RevokedMeta == Meta("REVOKED", "exc", 0)

\* A worker takes a message off its queue: a message whose id it holds as
\* revoked is discarded and marked REVOKED, any other is started
\* (task_track_started stores STARTED).  Before the body runs Celery sends
\* task_prerun: with settings.enable_metrics the handler of celery_app.py
\* lines 48-52 notes the start time.
WorkerStartOn(m, enable_metrics) ==
    /\ m \in queue
    /\ queue' = queue \ { m }
    /\ IF m.id \in revoked
       THEN /\ store' = [store EXCEPT ![m.id] = RevokedMeta]
            /\ UNCHANGED << running, mon >>
       ELSE /\ store' = [store EXCEPT ![m.id] = Meta("STARTED", "started", 0)]
            /\ running' = running \cup { m }
            /\ mon' = IF enable_metrics THEN TaskStarted(mon, m.id, m.name) ELSE mon
    /\ UNCHANGED << now, nextId, revoked, revokes, notified, gs, polls, ret,
                    returned, children, observed >>
    /\ UNCHANGED << submitted, ws, fs, sret, http, background, pipe, registry >>

\* The worker of a deployment that has set enable_metrics to false.
WorkerStart(m) == WorkerStartOn(m, FALSE)

\* The message that continues a chain after the stage of m has succeeded.
NextStage(m) ==
    IF m.chain = << >>
    THEN {}
    ELSE { Message(Head(m.chain).id, Head(m.chain).name, m.queue, Tail(m.chain)) }

\* The task body returns: SUCCESS is stored and the next stage of its chain,
\* if any, is published.  Celery then sends task_postrun: with
\* settings.enable_metrics the handler of celery_app.py lines 55-59 calls
\* task_completed(task_id, task.name, success=True).
WorkerSucceedOn(m, enable_metrics) ==
    /\ m \in running
    /\ running' = running \ { m }
    /\ store' = [store EXCEPT ![m.id] = Meta("SUCCESS", "value", 0)]
    /\ queue' = queue \cup NextStage(m)
    /\ mon' = IF enable_metrics THEN TaskCompleted(mon, m.id, m.name, TRUE) ELSE mon
    /\ UNCHANGED << now, nextId, revoked, revokes, notified, gs, polls, ret,
                    returned, children, observed >>
    /\ UNCHANGED << submitted, ws, fs, sret, http, background, pipe, registry >>

WorkerSucceed(m) == WorkerSucceedOn(m, FALSE)

\* backend.mark_as_failure(task_id, exc, request=request): FAILURE is
\* stored for the task and, the state being one that propagates, for every
\* element of request.chain, the stages that will not run.  The celery_app
\* sets broker_connection_retry_on_startup, a setting of Celery 5.3, and
\* mark_as_failure stores the chain elements since Celery 5.1.
FailedOnlyItself(st, m) == [st EXCEPT ![m.id] = Meta("FAILURE", "exc", 0)]

MarkAsFailure(st, m) ==
    [t \in DOMAIN st |->
        IF t = m.id \/ t \in { m.chain[j].id : j \in 1 .. Len(m.chain) }
        THEN Meta("FAILURE", "exc", 0)
        ELSE st[t]]

\* The task body raises.  download_image and upload_result answer with
\* self.retry: RETRY is stored and the message published again until
\* max_retries is used up; every other task, and a retrying one that is out
\* of retries, ends in FAILURE.  The rest of a chain is not published.
\* Celery sends task_failure for a task that ends in FAILURE (not for a
\* retry) and task_postrun after every execution, whatever its outcome:
\* with settings.enable_metrics the handler of celery_app.py lines 62-66
\* calls task_completed(task_id, "unknown", success=False) and the one of
\* lines 55-59 task_completed(task_id, task.name, success=True).
WorkerFailOn(m, enable_metrics) ==
    /\ m \in running
    /\ running' = running \ { m }
    /\ IF m.name \in Retrying /\ m.retries < max_retries
       THEN /\ store' = [store EXCEPT ![m.id] = Meta("RETRY", "exc", 0)]
            /\ queue' = queue \cup { [m EXCEPT !.retries = @ + 1] }
            /\ mon' = IF enable_metrics
                      THEN TaskCompleted(mon, m.id, m.name, TRUE)
                      ELSE mon
       ELSE /\ store' = MarkAsFailure(store, m)
            /\ UNCHANGED queue
            /\ mon' = IF enable_metrics
                      THEN TaskCompleted(TaskCompleted(mon, m.id, "unknown", FALSE),
                                         m.id, m.name, TRUE)
                      ELSE mon
    /\ UNCHANGED << now, nextId, revoked, revokes, notified, gs, polls, ret,
                    returned, children, observed >>
    /\ UNCHANGED << submitted, ws, fs, sret, http, background, pipe, registry >>

WorkerFail(m) == WorkerFailOn(m, FALSE)

\* ---------------------------------------------------- submission envelope
\* The store's PENDING entry of an issued task is given a dict that carries
\* "submitted_at": the envelope line 128 looks for.  No code of the
\* repository writes it; it is the store's input to get_task_status.
RecordEnvelope(t) ==
    /\ t < nextId
    /\ store[t] = PendingMeta
    /\ store' = [store EXCEPT ![t] = Meta("PENDING", "envelope", now)]
    /\ UNCHANGED << now, queue, running, nextId, revoked, revokes, notified,
                    gs, polls, ret, returned, children, observed >>
    /\ UNCHANGED << submitted, ws, fs, sret, http, background, pipe, registry, mon >>

\* --------------------------------------------------------- get_task_status
\* AsyncResult._get_task_meta: the cached meta once a READY state was read,
\* else a fresh read of the store.
ReadMeta(c) == IF gs[c].cached THEN gs[c].cache ELSE store[gs[c].tid]

\* AsyncResult._maybe_set_cache: the frame after a read that returned m.
Cache(f, m) ==
    IF m.status \in READY_STATES
    THEN [f EXCEPT !.cache = m, !.cached = TRUE]
    ELSE f

\* The caller's frame and the history when the call ends with frame f.
Finish(c, f) ==
    /\ gs' = [gs EXCEPT ![c] = [f EXCEPT !.pc = "done", !.cache = PendingMeta,
                                         !.cached = FALSE]]
    /\ observed' =
          IF f.exc = "None" /\ f.status.state \in Terminal /\ observed[f.tid] = "None"
          THEN [observed EXCEPT ![f.tid] = f.status.state]
          ELSE observed

\* A caller begins get_task_status(t): line 115, AsyncResult(task_id).
Poll(c, t) ==
    /\ gs[c].pc \in { "idle", "done" }
    /\ polls < MaxPolls
    /\ polls' = polls + 1
    /\ gs' = [gs EXCEPT ![c] = [IdleFrame EXCEPT !.pc = "l119", !.tid = t,
                                                 !.prior = observed[t],
                                                 !.kids = children[t]]]
    /\ UNCHANGED << now, store, queue, running, nextId, revoked, revokes,
                    notified, ret, returned, children, observed >>
    /\ UNCHANGED << submitted, ws, fs, sret, http, background, pipe, registry, mon >>

\* Line 119: state=TaskState(result.state).  A stored state that is no
\* member of TaskState (RETRY) raises ValueError.
ReadState(c) ==
    /\ gs[c].pc = "l119"
    /\ LET m == ReadMeta(c)
           f == Cache(gs[c], m)
       IN IF m.status \notin TaskState
          THEN Finish(c, [f EXCEPT !.exc = "ValueError"])
          ELSE /\ gs' = [gs EXCEPT ![c] =
                           [f EXCEPT !.pc = "l120",
                                     !.status = NewStatus(f.tid, m.status)]]
               /\ UNCHANGED observed
    /\ UNCHANGED << now, store, queue, running, nextId, revoked, revokes,
                    notified, polls, ret, returned, children >>
    /\ UNCHANGED << submitted, ws, fs, sret, http, background, pipe, registry, mon >>

\* Line 120: result=result.result if result.successful() else None.
ReadSuccessful(c) ==
    /\ gs[c].pc = "l120"
    /\ LET m == ReadMeta(c)
           f == Cache(gs[c], m)
       IN gs' = [gs EXCEPT ![c] =
                   [f EXCEPT !.pc = "l121",
                             !.status.result =
                                 IF m.status = "SUCCESS" THEN m.kind ELSE "None"]]
    /\ UNCHANGED << now, store, queue, running, nextId, revoked, revokes,
                    notified, polls, ret, returned, children, observed >>
    /\ UNCHANGED << submitted, ws, fs, sret, http, background, pipe, registry, mon >>

\* Line 121: error=str(result.info) if result.failed() else None.
ReadFailed(c) ==
    /\ gs[c].pc = "l121"
    /\ LET m == ReadMeta(c)
           f == Cache(gs[c], m)
       IN gs' = [gs EXCEPT ![c] =
                   [f EXCEPT !.pc = "l125",
                             !.status.error =
                                 IF m.status = "FAILURE" THEN ExcError ELSE NoError]]
    /\ UNCHANGED << now, store, queue, running, nextId, revoked, revokes,
                    notified, polls, ret, returned, children, observed >>
    /\ UNCHANGED << submitted, ws, fs, sret, http, background, pipe, registry, mon >>

\* Line 125: if result.state == "PENDING".
CheckPending(c) ==
    /\ gs[c].pc = "l125"
    /\ LET m == ReadMeta(c)
           f == Cache(gs[c], m)
       IN IF m.status = "PENDING"
          THEN /\ gs' = [gs EXCEPT ![c] = [f EXCEPT !.pc = "l127"]]
               /\ UNCHANGED observed
          ELSE Finish(c, f)
    /\ UNCHANGED << now, store, queue, running, nextId, revoked, revokes,
                    notified, polls, ret, returned, children >>
    /\ UNCHANGED << submitted, ws, fs, sret, http, background, pipe, registry, mon >>

\* Line 132: the comparison that decides the reclassification.
TimedOutDefault(wait_time) == wait_time > task_default_timeout

TimedOutAtThreshold(wait_time) == wait_time >= task_queue_timeout

TimedOut(wait_time) == wait_time > task_queue_timeout

\* Lines 127-134: task_info = result.info; with a "submitted_at" in it the
\* wait is measured and, past the threshold, the status becomes TIMEOUT.
CheckEnvelope(c) ==
    /\ gs[c].pc = "l127"
    /\ LET m == ReadMeta(c)
           f == Cache(gs[c], m)
           wait_time == now - m.at
       IN IF m.kind # "envelope"
          THEN Finish(c, f)
          ELSE IF TimedOut(wait_time)
          THEN /\ gs' = [gs EXCEPT ![c] =
                           [f EXCEPT !.pc = "l137", !.wait = wait_time,
                                     !.status.state = "TIMEOUT",
                                     !.status.error = QueueTimeoutError(wait_time)]]
               /\ UNCHANGED observed
          ELSE Finish(c, [f EXCEPT !.wait = wait_time])
    /\ UNCHANGED << now, store, queue, running, nextId, revoked, revokes,
                    notified, polls, ret, returned, children >>
    /\ UNCHANGED << submitted, ws, fs, sret, http, background, pipe, registry, mon >>

\* Line 137: result.revoke(terminate=True).  The workers note the id; a
\* worker executing the task kills it and stores REVOKED.
Revoke(c) ==
    /\ gs[c].pc = "l137"
    /\ LET t == gs[c].tid
           hit == { m \in running : m.id = t }
       IN /\ revokes' = [revokes EXCEPT ![t] = @ + 1]
          /\ revoked' = revoked \cup { t }
          /\ running' = running \ hit
          /\ store' = IF hit # {} THEN [store EXCEPT ![t] = RevokedMeta] ELSE store
    /\ gs' = [gs EXCEPT ![c].pc = "l140", ![c].didRevoke = TRUE]
    /\ UNCHANGED << now, queue, nextId, notified, polls, ret, returned,
                    children, observed >>
    /\ UNCHANGED << submitted, ws, fs, sret, http, background, pipe, registry, mon >>

\* Lines 23-34 and 38-45 of notification.py: the deliveries that run inside
\* try / except Exception.
DeliveryCaughtWebhookOnly(ch) == ch = "webhook"

DeliveryCaught(ch) == ch \in { "webhook", "email" }

\* The channels a notification function has a delivery block for:
\* notify_admin_timeout the webhook (lines 22-34) and the email (37-45),
\* notify_admin_failure the webhook alone (lines 59-71).
DeliversOn(op) == IF op = "timeout" THEN { "webhook", "email" } ELSE { "webhook" }

\* The deliveries a call of the function makes on each channel: one on a
\* channel that is configured and that the function delivers on, unless an
\* exception of an earlier delivery (the webhook block stands before the
\* email block) has left the function.
Attempts(op, conf, failed) ==
    [ch \in Channels |->
        IF /\ ch \in conf \cap DeliversOn(op)
           /\ (ch = "email" /\ "webhook" \in failed \cap DeliversOn(op)) =>
                 DeliveryCaught("webhook")
        THEN 1 ELSE 0]

\* The exception notify_admin_timeout ends with when the deliveries on the
\* channels `failed` raise.
NotifyOutcome(failed) ==
    IF \A ch \in failed : DeliveryCaught(ch) THEN "None" ELSE "Exception"

\* Lines 140-143: notify_admin_timeout(task_id, wait_time); return status.
\* conf are the channels configured and failed those whose delivery raises;
\* an exception that leaves notify_admin_timeout ends get_task_status.
NotifyAdminTimeout(c, conf, failed) ==
    /\ gs[c].pc = "l140"
    /\ failed \subseteq conf
    /\ notified' = [notified EXCEPT ![gs[c].tid] = @ + 1]
    /\ Finish(c, [gs[c] EXCEPT !.didNotify = TRUE, !.undelivered = failed,
                               !.attempts = Attempts("timeout", conf, failed),
                               !.exc = NotifyOutcome(failed)])
    /\ UNCHANGED << now, store, queue, running, nextId, revoked, revokes,
                    polls, ret, returned, children >>
    /\ UNCHANGED << submitted, ws, fs, sret, http, background, pipe, registry, mon >>

\* The notification under the default settings: no channel is configured.
Notify(c) == NotifyAdminTimeout(c, {}, {})

\* notify_admin_failure(task_id, error), lines 48-71 of notification.py,
\* with the channels conf configured and the deliveries on `failed`
\* raising.
NotifyAdminFailure(conf, failed) ==
    /\ failed \subseteq conf
    /\ mon' = [mon EXCEPT !.note =
                  [op |-> "failure", conf |-> conf, failed |-> failed,
                   attempts |-> Attempts("failure", conf, failed),
                   exc |-> NotifyOutcome(failed \cap DeliversOn("failure"))]]
    /\ UNCHANGED << now, store, queue, running, nextId, revoked, revokes,
                    notified, gs, polls, ret, returned, children, observed >>
    /\ UNCHANGED << submitted, ws, fs, sret, http, background, pipe, registry >>

\* ------------------------------------------------------- storage functions
\* task_dir.mkdir(parents=True, exist_ok=True): p and the directories above
\* it exist afterwards.  No file of this model lies on the path of a task
\* directory (file names end in "f", task ids have no such component).
MkdirParents(f, p) == [q \in Paths |-> IF q \in Prefixes(p) THEN Dir ELSE f[q]]

\* shutil.rmtree(p): p and everything below it is gone.
RmTreeIfEmpty(f, p) ==
    IF \E q \in Paths : q # p /\ IsPrefix(p, q) /\ f[q] # Absent
    THEN f
    ELSE [f EXCEPT ![p] = Absent]

RmTree(f, p) == [q \in Paths |-> IF IsPrefix(p, q) THEN Absent ELSE f[q]]

\* cleanup_task_dir(task_dir): if task_dir.exists(): shutil.rmtree(task_dir).
CleanupTaskDir(f, p) == IF f[p] # Absent THEN RmTree(f, p) ELSE f

\* file_path.read_bytes() on the storage f: the bytes of the file, or the
\* exception for a path that is no file.
Loaded(f, p) ==
    IF f[p].kind = "file" THEN [outcome |-> "ok", data |-> f[p].data]
    ELSE IF f[p].kind = "dir" THEN [outcome |-> "IsADirectoryError", data |-> ""]
    ELSE [outcome |-> "FileNotFoundError", data |-> ""]

\* get_task_dir(task_id): creates the directory and returns its path.
GetTaskDir(id) ==
    /\ fs' = MkdirParents(fs, id)
    /\ sret' = SRet("get_task_dir", id, << >>, "ok", id, "", FALSE)
    /\ UNCHANGED << now, store, queue, running, nextId, revoked, revokes,
                    notified, gs, polls, ret, returned, children, observed,
                    submitted, ws, http, background, pipe, registry, mon >>

\* save_task_data(task_id, filename, data): get_task_file_path creates the
\* task directory and joins the file name to it; write_bytes opens that
\* path for writing and creates no directory: with the directory of the
\* file missing it raises FileNotFoundError.
SaveTaskData(id, name, data) ==
    LET f1 == MkdirParents(fs, id)
        p == id \o name
    IN
    /\ IF f1[Parent(p)].kind # "dir"
       THEN /\ fs' = f1
            /\ sret' = SRet("save_task_data", id, name, "FileNotFoundError", p, "", FALSE)
       ELSE /\ fs' = [f1 EXCEPT ![p] = File(data)]
            /\ sret' = SRet("save_task_data", id, name, "ok", p, "", FALSE)
    /\ UNCHANGED << now, store, queue, running, nextId, revoked, revokes,
                    notified, gs, polls, ret, returned, children, observed,
                    submitted, ws, http, background, pipe, registry, mon >>

\* load_task_data(task_id, filename): get_task_file_path creates the task
\* directory; read_bytes returns the bytes of the file or raises.
LoadTaskData(id, name) ==
    LET f1 == MkdirParents(fs, id)
        p == id \o name
    IN
    /\ fs' = f1
    /\ sret' = SRet("load_task_data", id, name, Loaded(f1, p).outcome, p,
                    Loaded(f1, p).data, FALSE)
    /\ UNCHANGED << now, store, queue, running, nextId, revoked, revokes,
                    notified, gs, polls, ret, returned, children, observed,
                    submitted, ws, http, background, pipe, registry, mon >>

\* The faults the file system can answer cleanup_task with: none, mkdir in
\* get_task_dir refused, rmtree in cleanup_task_dir refused.
CleanupFaults == { "none", "mkdir", "rmtree" }

\* The exception a fault raises: both are subclasses of OSError.
FaultException(fault) == IF fault = "mkdir" THEN "PermissionError" ELSE "OSError"

\* Line 198, except Exception: the exceptions the clause catches.
CatchesNotFoundOnly(exc) == exc = "FileNotFoundError"

CatchesException(exc) ==
    exc \in { "OSError", "PermissionError", "FileNotFoundError", "FileExistsError" }

\* TaskManager.cleanup_task(task_id): get_task_dir, then cleanup_task_dir,
\* inside try / except Exception.  A fault raises in the call it names and
\* ends the try block there: the exception is caught and logged when the
\* except clause catches it and goes on to the caller when not.
CleanupTaskCall(id, fault) ==
    LET f1 == IF fault = "mkdir" THEN fs ELSE MkdirParents(fs, id)
        f2 == IF fault = "none" THEN CleanupTaskDir(f1, id) ELSE f1
        caught == fault # "none" /\ CatchesException(FaultException(fault))
        outcome == IF fault = "none" \/ caught THEN "ok" ELSE FaultException(fault)
    IN
    /\ fs' = f2
    /\ sret' = [SRet("cleanup_task", id, << >>, outcome, id, "", caught)
                   EXCEPT !.removed = { q \in Paths : f1[q] # Absent /\ f2[q] = Absent },
                          !.fault = fault]
    /\ UNCHANGED << now, store, queue, running, nextId, revoked, revokes,
                    notified, gs, polls, ret, returned, children, observed,
                    submitted, ws, registry, mon >>

\* cleanup_task called by a client of TaskManager other than the API and
\* the pipeline.
CleanupTask(id, fault) ==
    CleanupTaskCall(id, fault) /\ UNCHANGED << http, background, pipe >>

\* ----------------------------------------------------------- wait_for_task
\* The timeout values handed to wait_for_task: None (-1), 0 and the
\* positive ones; and the poll intervals.
WaitTimeouts == -1 .. MaxWaitTimeout
WaitIntervals == 1 .. MaxInterval

\* Iterations of the loop of one call in this model: enough for the
\* longest timeout polled at the shortest interval.
MaxWaitPolls == MaxWaitTimeout + 2

\* Lines 162-164: wait_for_task(t, timeout, poll_interval) takes start_time.
WaitStart(c, t, timeout, interval) ==
    /\ ws[c].pc = "idle"
    /\ gs[c].pc \in { "idle", "done" }
    /\ ws' = [ws EXCEPT ![c] = [IdleWait EXCEPT !.pc = "l167", !.tid = t,
                                                !.timeout = timeout,
                                                !.interval = interval,
                                                !.start = now]]
    /\ UNCHANGED << now, store, queue, running, nextId, revoked, revokes,
                    notified, gs, polls, ret, returned, children, observed,
                    submitted, fs, sret, http, background, pipe, registry, mon >>

\* Line 167: status = TaskManager.get_task_status(task_id) is entered.
WaitPoll(c) ==
    /\ ws[c].pc = "l167"
    /\ ws[c].npolls < MaxWaitPolls
    /\ ws' = [ws EXCEPT ![c].pc = "l170", ![c].npolls = @ + 1]
    /\ gs' = [gs EXCEPT ![c] = [IdleFrame EXCEPT !.pc = "l119",
                                                 !.tid = ws[c].tid,
                                                 !.prior = observed[ws[c].tid],
                                                 !.kids = children[ws[c].tid]]]
    /\ UNCHANGED << now, store, queue, running, nextId, revoked, revokes,
                    notified, polls, ret, returned, children, observed,
                    submitted, fs, sret, http, background, pipe, registry, mon >>

\* Lines 170-175: the states the loop returns at once.
IsDoneStarted(state) == state \in Terminal \cup { "STARTED" }

IsDoneNoTimeout(state) == state \in Terminal \ { "TIMEOUT" }

IsDone(state) == state \in Terminal

\* Line 179: if timeout and (time.time() - start_time) > timeout.
ClientTimedOutAtTimeout(timeout, elapsed) == timeout > 0 /\ elapsed >= timeout

ClientTimedOut(timeout, elapsed) == timeout > 0 /\ elapsed > timeout

\* Lines 170-184: what the loop does with the state of a status, in the
\* order the code tests: return it, return the client timeout, or sleep.
WaitDecisionDeadlineFirst(state, timeout, elapsed) ==
    IF ClientTimedOut(timeout, elapsed) THEN "client"
    ELSE IF IsDone(state) THEN "return"
    ELSE "sleep"

WaitDecision(state, timeout, elapsed) ==
    IF IsDone(state) THEN "return"
    ELSE IF ClientTimedOut(timeout, elapsed) THEN "client"
    ELSE "sleep"

\* Lines 176-184: the line the loop goes to after its decision: it leaves
\* the call, or runs the sleep of line 184 before the next iteration.
NextLineNoSleep(decision) == IF decision = "sleep" THEN "l167" ELSE "done"

NextLine(decision) == IF decision = "sleep" THEN "l184" ELSE "done"

\* Lines 167-182, once get_task_status has ended: its exception goes on to
\* the caller of wait_for_task; a terminal status is returned as it is; past
\* the timeout the status is returned as TIMEOUT with "Client timeout";
\* otherwise the loop goes on to sleep.
WaitCheck(c) ==
    /\ ws[c].pc = "l170"
    /\ gs[c].pc = "done"
    /\ LET st == gs[c].status
           w == [ws[c] EXCEPT !.acted = @ \/ gs[c].didRevoke \/ gs[c].didNotify,
                              !.seen = IF gs[c].exc = "None"
                                       THEN Append(@, gs[c].status.state) ELSE @]
           decision == WaitDecision(st.state, w.timeout, now - w.start)
       IN ws' = [ws EXCEPT ![c] =
                   IF gs[c].exc # "None"
                   THEN [w EXCEPT !.pc = "done", !.exc = gs[c].exc]
                   ELSE IF decision = "return"
                   THEN [w EXCEPT !.pc = NextLine(decision), !.status = st]
                   ELSE IF decision = "client"
                   THEN [w EXCEPT !.pc = NextLine(decision), !.client = TRUE,
                                  !.status = [st EXCEPT !.state = "TIMEOUT",
                                                        !.error = ClientTimeoutError]]
                   ELSE [w EXCEPT !.pc = NextLine(decision), !.status = st]]
    /\ UNCHANGED << now, store, queue, running, nextId, revoked, revokes,
                    notified, gs, polls, ret, returned, children, observed,
                    submitted, fs, sret, http, background, pipe, registry, mon >>

\* Line 184: time.sleep(poll_interval).  The clock of a waiting call moves
\* by its sleeps: a poll takes no time and a sleep lasts its interval.
WaitSleep(c) ==
    /\ ws[c].pc = "l184"
    /\ now' = now + ws[c].interval
    /\ ws' = [ws EXCEPT ![c].pc = "l167", ![c].nsleeps = @ + 1,
                         ![c].slept = @ + ws[c].interval]
    /\ UNCHANGED << store, queue, running, nextId, revoked, revokes,
                    notified, gs, polls, ret, returned, children, observed,
                    submitted, fs, sret, http, background, pipe, registry, mon >>

\* ------------------------------------------------ super-resolution pipeline
\* The values classification["category"] can hold: the three of
\* ImageCategory and, from a classifier that replaces the placeholder,
\* other strings.
Categories == { "general", "portrait", "landscape", "other", "" }

\* Lines 70-79, with the queue names of Settings.
gpu_queue_map ==
    [c \in { "general", "portrait", "landscape" } |->
        CASE c = "general" -> "gpu-general"
          [] c = "portrait" -> "gpu-portrait"
          [] c = "landscape" -> "gpu-landscape"]

gpu_task_map ==
    [c \in { "general", "portrait", "landscape" } |->
        CASE c = "general" -> "gpu_inference_general"
          [] c = "portrait" -> "gpu_inference_portrait"
          [] c = "landscape" -> "gpu_inference_landscape"]

\* The tasks getattr(gpu_worker, name) finds in src/workers/gpu_worker.py.
GpuWorkerTasks ==
    { "gpu_inference_general", "gpu_inference_portrait", "gpu_inference_landscape" }

\* dict.get(key, default).
DictIndex(d, k, default) == IF k \in DOMAIN d THEN d[k] ELSE "KeyError"

DictGet(d, k, default) == IF k \in DOMAIN d THEN d[k] ELSE default

\* The pipeline task starts for the task id tid (self.request.id).
PipelineStart(tid) ==
    /\ pipe.pc \in { "idle", "done" }
    /\ pipe' = [IdlePipe EXCEPT !.pc = "l52", !.tid = tid]
    /\ UNCHANGED << now, store, queue, running, nextId, revoked, revokes,
                    notified, gs, polls, ret, returned, children, observed,
                    submitted, ws, fs, sret, http, background, registry, mon >>

\* A stage task.apply_async(queue=q).get() at position from: the task is
\* published on q; when it succeeds the run goes on at `to`, when it fails
\* get() raises its exception in the pipeline, which ends with it.
Stage(from, to, name, q, ok) ==
    /\ pipe.pc = from
    /\ pipe' = IF ok
               THEN [pipe EXCEPT !.pc = to, !.sent = Append(@, << name, q >>)]
               ELSE [pipe EXCEPT !.pc = "done", !.exc = "TaskError",
                                 !.sent = Append(@, << name, q >>)]
    /\ UNCHANGED << now, store, queue, running, nextId, revoked, revokes,
                    notified, gs, polls, ret, returned, children, observed,
                    submitted, ws, fs, sret, http, background, registry, mon >>

\* Lines 52-55: download_image on settings.queue_io.
PipelineDownload(ok) == Stage("l52", "l61", "download_image", "io", ok)

\* Lines 61-69: classify_image on settings.queue_cpu; its result carries
\* the category.
PipelineClassify(category, ok) ==
    /\ pipe.pc = "l61"
    /\ pipe' = IF ok
               THEN [pipe EXCEPT !.pc = "l70", !.category = category,
                                 !.sent = Append(@, << "classify_image", "cpu" >>)]
               ELSE [pipe EXCEPT !.pc = "done", !.exc = "TaskError",
                                 !.sent = Append(@, << "classify_image", "cpu" >>)]
    /\ UNCHANGED << now, store, queue, running, nextId, revoked, revokes,
                    notified, gs, polls, ret, returned, children, observed,
                    submitted, ws, fs, sret, http, background, registry, mon >>

\* Lines 70-82: the queue and the task name of the category, with
\* settings.queue_gpu_general and "gpu_inference_general" as defaults.
PipelineRoute ==
    /\ pipe.pc = "l70"
    /\ pipe' = [pipe EXCEPT
                   !.pc = "l85",
                   !.gpu_queue = DictGet(gpu_queue_map, pipe.category, "gpu-general"),
                   !.gpu_task_name = DictGet(gpu_task_map, pipe.category,
                                             "gpu_inference_general")]
    /\ UNCHANGED << now, store, queue, running, nextId, revoked, revokes,
                    notified, gs, polls, ret, returned, children, observed,
                    submitted, ws, fs, sret, http, background, registry, mon >>

\* Lines 84-89: getattr(gpu_worker, gpu_task_name) raises AttributeError
\* for a name the module does not hold; the task found is published on
\* gpu_queue.
PipelineInference(ok) ==
    IF pipe.gpu_task_name \in GpuWorkerTasks
    THEN Stage("l85", "l95", pipe.gpu_task_name, pipe.gpu_queue, ok)
    ELSE /\ pipe.pc = "l85"
         /\ pipe' = [pipe EXCEPT !.pc = "done", !.exc = "AttributeError"]
         /\ UNCHANGED << now, store, queue, running, nextId, revoked, revokes,
                         notified, gs, polls, ret, returned, children, observed,
                         submitted, ws, fs, sret, http, background, registry, mon >>

\* Lines 95-98: encode_result on settings.queue_cpu.
PipelineEncode(ok) == Stage("l95", "l104", "encode_result", "cpu", ok)

\* Lines 104-107: upload_result on settings.queue_io.
PipelineUpload(ok) == Stage("l104", "l112", "upload_result", "io", ok)

\* Lines 112-119: TaskManager.cleanup_task(task_id), then the result.
PipelineCleanup(fault) ==
    /\ pipe.pc = "l112"
    /\ CleanupTaskCall(pipe.tid, fault)
    /\ pipe' = [pipe EXCEPT !.pc = "done", !.exc = sret'.outcome]
    /\ UNCHANGED << http, background >>

\* ------------------------------------------------------------ ModelRegistry
\* Line 30 of gpu_worker.py: if model_name not in cls._models.
LoadModelCheck(t, name) ==
    /\ registry.th[t].pc \in { "idle", "done" }
    /\ registry' = [registry EXCEPT
                       !.th[t] = [pc |-> IF registry.models[name] = NoModel
                                         THEN "l39" ELSE "l48",
                                  name |-> name, model |-> NoModel]]
    /\ UNCHANGED << now, store, queue, running, nextId, revoked, revokes,
                    notified, gs, polls, ret, returned, children, observed,
                    submitted, ws, fs, sret, http, background, pipe, mon >>

\* Lines 31-46: the model is loaded and the new object stored under its
\* name.
LoadModelStore(t) ==
    /\ registry.th[t].pc = "l39"
    /\ LET name == registry.th[t].name IN
       registry' = [registry EXCEPT !.made = @ + 1,
                                    !.models[name] = registry.made + 1,
                                    !.loads[name] = @ + 1,
                                    !.th[t].pc = "l48"]
    /\ UNCHANGED << now, store, queue, running, nextId, revoked, revokes,
                    notified, gs, polls, ret, returned, children, observed,
                    submitted, ws, fs, sret, http, background, pipe, mon >>

\* Line 48: return cls._models[model_name].
LoadModelReturn(t) ==
    /\ registry.th[t].pc = "l48"
    /\ LET name == registry.th[t].name
           model == registry.models[name]
       IN registry' = [registry EXCEPT !.th[t].pc = "done",
                                       !.th[t].model = model,
                                       !.got[name] = @ \cup { model }]
    /\ UNCHANGED << now, store, queue, running, nextId, revoked, revokes,
                    notified, gs, polls, ret, returned, children, observed,
                    submitted, ws, fs, sret, http, background, pipe, mon >>

\* --------------------------------------------------------------------- API
\* The scratch directory of a task id the broker client issued: a uuid, one
\* path component.
ScratchOf(t) == IF t = 1 THEN << "A" >> ELSE << "B" >>

\* The task ids DELETE /api/v1/tasks/{task_id} can carry: the path
\* parameter matches one path segment.
DeleteIds == { << "A" >>, << "B" >> }

\* wait_for_task as the API calls it sleeps poll_interval = 0.5 s at a time,
\* 600 times before task_default_timeout has passed.  A sleep step of the
\* waiting handler stands for the sleeps of half the timeout and one second.
ApiSleep == (task_default_timeout \div 2) + 1

\* The request a handler begins with.
NewRequest(op, sync) == [IdleRequest EXCEPT !.pc = "running", !.op = op, !.sync = sync]

\* The response that ends a request.
Respond(req, code, state) == [req EXCEPT !.pc = "done", !.code = code, !.state = state]

\* POST /api/v1/tasks, lines 57-67 and 81-89: submit_task; an exception
\* becomes status 500; without sync the response is PENDING at once; with
\* sync the handler goes on to wait_for_task.
ApiSubmitTask(name, sync, fails) ==
    /\ http.pc \in { "idle", "done" }
    /\ \A c \in Callers : ws[c].pc = "idle"
    /\ SubmitTaskCall(name, fails)
    /\ LET req == NewRequest("submit_task", sync) IN
       http' = IF ret'.outcome # "ok"
               THEN Respond(req, 500, "None")
               ELSE IF sync
               THEN [req EXCEPT !.pc = "l68", !.tid = ret'.ids[1]]
               ELSE Respond([req EXCEPT !.tid = ret'.ids[1]], 200, "PENDING")

\* Lines 68-71: the handler enters wait_for_task with
\* timeout = settings.task_default_timeout.
ApiWait(c) ==
    /\ http.pc = "l68"
    /\ WaitStart(c, http.tid, task_default_timeout, ApiSleep)

\* Lines 68-79 and 87-89, once wait_for_task has ended: its exception
\* becomes status 500; its status is answered with cleanup_task scheduled
\* as a background task.
ApiSubmitReturn(c) ==
    /\ http.pc = "l68"
    /\ ws[c].pc = "done"
    /\ IF ws[c].exc # "None"
       THEN /\ http' = Respond(http, 500, "None")
            /\ UNCHANGED background
       ELSE /\ background' = Append(background, http.tid)
            /\ http' = Respond([http EXCEPT !.scheduled = @ + 1], 200,
                               ws[c].status.state)
    /\ UNCHANGED << now, store, queue, running, nextId, revoked, revokes,
                    notified, gs, polls, ret, returned, children, observed,
                    submitted, ws, fs, sret, pipe, registry, mon >>

\* Starlette runs the background tasks of a request after its response.
RunBackground(fault) ==
    /\ http.pc = "done"
    /\ background # << >>
    /\ CleanupTaskCall(ScratchOf(Head(background)), fault)
    /\ background' = Tail(background)
    /\ UNCHANGED << http, pipe >>

\* DELETE /api/v1/tasks/{task_id}, lines 122-127: cleanup_task, then the
\* confirmation; an exception of cleanup_task becomes status 500.
ApiCleanupTask(id, fault) ==
    /\ http.pc \in { "idle", "done" }
    /\ CleanupTaskCall(id, fault)
    /\ LET req == [NewRequest("cleanup_task", FALSE) EXCEPT !.sid = id,
                                                            !.cleanups = 1] IN
       http' = IF sret'.outcome = "ok"
               THEN Respond(req, 200, "success")
               ELSE Respond(req, 500, "None")
    /\ UNCHANGED << background, pipe >>

\* ----------------------------------------------------------- specifications
Workers ==
    \/ \E m \in queue : WorkerStart(m)
    \/ \E m \in running : WorkerSucceed(m)
    \/ \E m \in running : WorkerFail(m)

\* Submission under every input: unregistered names, refused publishes and
\* empty config lists included.
NextSubmit ==
    \/ \E name \in SubmitNames, fails \in BOOLEAN : SubmitTask(name, fails)
    \/ \E parent \in ParentIds, cfgs \in ConfigLists, parallel \in BOOLEAN,
          failAt \in 0 .. MaxConfigs :
          /\ ParentOk(parent, cfgs)
          /\ SubmitSubtasks(parent, cfgs, parallel, failAt)

SpecSubmit == Init /\ [][NextSubmit]_vars

\* Routing: every task of the worker modules, and a name none registers,
\* is submitted with submit_task, over a broker that accepts or refuses.
NextRoute ==
    \E name \in Registered \cup { "nonexistent_task" }, fails \in BOOLEAN :
        SubmitTask(name, fails)

SpecRoute == Init /\ [][NextRoute]_vars

\* Tracking: tasks are submitted with registered names over a broker that
\* accepts them, and polled by concurrent callers while the workers run,
\* the store receives envelopes and time passes.
\* The ids polled: those a run can issue and one the store never hears of.
PollIds == 1 .. (MaxTracked + 1)

\* The steps of get_task_status up to its timeout decision, for the
\* callers cs.
GetTaskStatus(cs) ==
    \/ \E c \in cs, t \in PollIds : Poll(c, t)
    \/ \E c \in cs : ReadState(c)
    \/ \E c \in cs : ReadSuccessful(c)
    \/ \E c \in cs : ReadFailed(c)
    \/ \E c \in cs : CheckPending(c)
    \/ \E c \in cs : CheckEnvelope(c)

\* The same steps of a call that wait_for_task has entered.
GetTaskStatusCalls(cs) ==
    \/ \E c \in cs : ReadState(c)
    \/ \E c \in cs : ReadSuccessful(c)
    \/ \E c \in cs : ReadFailed(c)
    \/ \E c \in cs : CheckPending(c)
    \/ \E c \in cs : CheckEnvelope(c)

Next ==
    \/ Tick
    \/ \E name \in TrackNames :
          /\ nextId <= MaxTracked
          /\ SubmitTask(name, FALSE)
    \/ Workers
    \/ \E t \in TaskIds : RecordEnvelope(t)
    \/ GetTaskStatus(Callers)
    \/ \E c \in Callers : Revoke(c)
    \/ \E c \in Callers : Notify(c)

Spec == Init /\ [][Next]_vars

\* Parents and subtasks: groups and chains of registered tasks are
\* submitted under a parent and the parent and the subtasks are polled
\* while the workers run.  No envelope is stored, so no call reaches the
\* revocation; one caller polls.
FamilyLists == UNION { [1 .. n -> TrackNames] : n \in 1 .. MaxTracked }

NextFamily ==
    \/ \E parent \in ParentIds, cfgs \in FamilyLists, parallel \in BOOLEAN :
          /\ nextId + Len(cfgs) - 1 <= MaxTracked
          /\ ParentOk(parent, cfgs)
          /\ SubmitSubtasks(parent, cfgs, parallel, 0)
    \/ Workers
    \/ GetTaskStatus({ 1 })

SpecFamily == Init /\ [][NextFamily]_vars

\* Waiting: one caller waits for the first task of the run while the
\* workers run and the store receives its envelope.  Outside a wait the
\* clock moves as in Spec; during one it moves by the sleeps of the loop.
Waiters == { 1 }

\* The steps of the waiting call, down to the calls it makes.
WaitSteps ==
    \/ \E c \in Waiters : WaitPoll(c)
    \/ GetTaskStatusCalls(Waiters)
    \/ \E c \in Waiters : Revoke(c)
    \/ \E c \in Waiters : Notify(c)
    \/ \E c \in Waiters : WaitCheck(c)
    \/ \E c \in Waiters : WaitSleep(c)

NextWait ==
    \/ /\ \A c \in Waiters : ws[c].pc = "idle"
       /\ Tick
    \/ \E name \in TrackNames :
          /\ nextId = 1
          /\ SubmitTask(name, FALSE)
    \/ Workers
    \/ RecordEnvelope(1)
    \/ \E c \in Waiters, timeout \in WaitTimeouts, interval \in WaitIntervals :
          WaitStart(c, 1, timeout, interval)
    \/ WaitSteps

SpecWait == Init /\ [][NextWait]_vars

\* The waiting call is scheduled: a step of it that stays possible is taken.
SpecWaitFair == SpecWait /\ WF_vars(WaitSteps)

\* Scratch storage: directories are made, files saved and loaded and tasks
\* cleaned up, under every id, file name and content of the model.
NextScratch ==
    \/ \E id \in ScratchIds : GetTaskDir(id)
    \/ \E id \in ScratchIds, name \in FileNames, data \in Bytes :
          SaveTaskData(id, name, data)
    \/ \E id \in ScratchIds, name \in FileNames : LoadTaskData(id, name)
    \/ \E id \in ScratchIds, fault \in CleanupFaults : CleanupTask(id, fault)

SpecScratch == Init /\ [][NextScratch]_vars

\* Notification: one caller polls the first task of the run while its
\* envelope ages, and notify_admin_failure is called, with every choice of
\* configured and failing channels.
NextNotify ==
    \/ Tick
    \/ \E name \in TrackNames :
          /\ nextId = 1
          /\ SubmitTask(name, FALSE)
    \/ Workers
    \/ RecordEnvelope(1)
    \/ GetTaskStatus({ 1 })
    \/ Revoke(1)
    \/ \E conf \in SUBSET Channels, failed \in SUBSET Channels :
          NotifyAdminTimeout(1, conf, failed)
    \/ \E conf \in SUBSET Channels, failed \in SUBSET Channels :
          NotifyAdminFailure(conf, failed)

SpecNotify == Init /\ [][NextNotify]_vars

\* The pipeline: runs for every task id, category and outcome of its stages.
NextPipeline ==
    \/ \E tid \in DeleteIds : PipelineStart(tid)
    \/ \E ok \in BOOLEAN : PipelineDownload(ok)
    \/ \E category \in Categories, ok \in BOOLEAN : PipelineClassify(category, ok)
    \/ PipelineRoute
    \/ \E ok \in BOOLEAN : PipelineInference(ok)
    \/ \E ok \in BOOLEAN : PipelineEncode(ok)
    \/ \E ok \in BOOLEAN : PipelineUpload(ok)
    \/ \E fault \in CleanupFaults : PipelineCleanup(fault)

SpecPipeline == Init /\ [][NextPipeline]_vars

\* The registry: the threads of a worker call load_model for the model
\* names, each call any number of times and in any interleaving.
NextRegistry ==
    \/ \E t \in Threads, name \in ModelNames : LoadModelCheck(t, name)
    \/ \E t \in Threads : LoadModelStore(t)
    \/ \E t \in Threads : LoadModelReturn(t)

SpecRegistry == Init /\ [][NextRegistry]_vars

\* Chains: a chain of two stages is submitted and a caller waits, with or
\* without timeout, for the id it returned while the workers run.  No
\* envelope is stored, so no call reaches the revocation.
ChainLists == [1 .. 2 -> TrackNames]

ChainWaitSteps ==
    \/ \E c \in Waiters : WaitPoll(c)
    \/ GetTaskStatusCalls(Waiters)
    \/ \E c \in Waiters : WaitCheck(c)
    \/ \E c \in Waiters : WaitSleep(c)

NextChain ==
    \/ \E cfgs \in ChainLists :
          /\ nextId = 1
          /\ SubmitSubtasks(MaxIds, cfgs, FALSE, 0)
    \/ Workers
    \/ \E c \in Waiters, timeout \in { -1, MaxWaitTimeout } :
          /\ ret.op = "submit_subtasks"
          /\ WaitStart(c, ret.ids[1], timeout, 1)
    \/ ChainWaitSteps

SpecChain == Init /\ [][NextChain]_vars

\* The waiting call is scheduled.
SpecChainFair == SpecChain /\ WF_vars(ChainWaitSteps)

\* Metrics: tasks are submitted and executed by workers of a deployment
\* with settings.enable_metrics at its default, true.
NextMetrics ==
    \/ \E name \in TrackNames :
          /\ nextId <= MaxTracked
          /\ SubmitTask(name, FALSE)
    \/ \E m \in queue : WorkerStartOn(m, TRUE)
    \/ \E m \in running : WorkerSucceedOn(m, TRUE)
    \/ \E m \in running : WorkerFailOn(m, TRUE)

SpecMetrics == Init /\ [][NextMetrics]_vars

\* The API: one task is posted, with or without sync, and its handler waits
\* while the workers run and the store receives the envelope; tasks are
\* deleted; the files of workers appear in the scratch directories.
NextApi ==
    \/ /\ \A c \in Waiters : ws[c].pc = "idle"
       /\ Tick
    \/ \E name \in SubmitNames \cup TrackNames, sync \in BOOLEAN, fails \in BOOLEAN :
          /\ nextId = 1
          /\ ApiSubmitTask(name, sync, fails)
    \/ Workers
    \/ RecordEnvelope(1)
    \/ \E c \in Waiters : ApiWait(c)
    \/ WaitSteps
    \/ \E c \in Waiters : ApiSubmitReturn(c)
    \/ \E fault \in CleanupFaults : RunBackground(fault)
    \/ \E id \in DeleteIds, fault \in CleanupFaults : ApiCleanupTask(id, fault)
    \/ \E id \in DeleteIds, data \in { "x" } : SaveTaskData(id, << "f" >>, data)

SpecApi == Init /\ [][NextApi]_vars

\* ================================================================== claims

\* C1: for every task id, over any number and interleaving of
\* get_task_status calls, notify_admin_timeout is called at most once.
C1_AtMostOneTimeoutNotification == \A t \in TaskIds : notified[t] <= 1

\* C2: a get_task_status call that reads PENDING and an envelope whose
\* submitted_at lies more than task_queue_timeout before now returns state
\* TIMEOUT with a non-empty error, has issued the revoke for its task id and
\* has fired the timeout notification for it.
C2_TimeoutReclassifies ==
    \A c \in Callers :
        (gs[c].pc = "done" /\ gs[c].wait > task_queue_timeout) =>
            /\ gs[c].exc = "None"
            /\ gs[c].status.task_id = gs[c].tid
            /\ gs[c].status.state = "TIMEOUT"
            /\ gs[c].status.error.present
            /\ gs[c].status.error.text # ""
            /\ gs[c].didRevoke
            /\ revokes[gs[c].tid] >= 1
            /\ gs[c].tid \in revoked
            /\ gs[c].didNotify
            /\ notified[gs[c].tid] >= 1

\* C2 witness: a call has returned after measuring a wait past the threshold.
C2_Witness ==
    \E c \in Callers : gs[c].pc = "done" /\ gs[c].wait > task_queue_timeout

\* C3: once a get_task_status call has returned a terminal state for an id,
\* every call for that id begun afterwards and returning a status returns
\* that same state.
C3_TerminalAbsorbing ==
    \A c \in Callers :
        (gs[c].pc = "done" /\ gs[c].exc = "None" /\ gs[c].prior # "None") =>
            gs[c].status.state = gs[c].prior

\* C4: every id a successful submit call returns is non-empty, and the ids
\* returned over all successful submit calls are pairwise distinct.
C4_IdsNonEmptyDistinct ==
    \A i, j \in 1 .. Len(returned) :
        /\ returned[i] # NoId
        /\ returned[i] \in TaskIds
        /\ (i # j => returned[i] # returned[j])

\* C4 witness: submit_task has just returned an id after an earlier
\* successful submission.
C4_Witness ==
    /\ ret.op = "submit_task"
    /\ ret.outcome = "ok"
    /\ Len(returned) >= 2

\* C5: submit_task with an unregistered name raises ValueError and leaves
\* the queue and the result store as they were: no message, no new id.
C5_UnknownNameEnqueuesNothing ==
    [][ \A name \in SubmitNames \ Registered, fails \in BOOLEAN :
            SubmitTask(name, fails) =>
                /\ ret'.outcome = "ValueError"
                /\ ret'.ids = << >>
                /\ UNCHANGED << queue, running, store, nextId, returned >> ]_vars

\* C5 witness: submit_task has raised ValueError with messages of earlier
\* submissions in the queue.
C5_Witness ==
    /\ ret.op = "submit_task"
    /\ ret.outcome = "ValueError"
    /\ queue # {}

\* C6: submit_subtasks with an unregistered name at any position raises
\* ValueError and enqueues none of the configs, in both modes.
C6_ValidationAllOrNothing ==
    [][ \A parent \in ParentIds, cfgs \in ConfigLists, parallel \in BOOLEAN :
            ( /\ \E i \in 1 .. Len(cfgs) : cfgs[i] \notin Registered
              /\ SubmitSubtasks(parent, cfgs, parallel, 0) ) =>
                /\ ret'.outcome = "ValueError"
                /\ ret'.bad = FirstInvalid(cfgs)
                /\ ret'.ids = << >>
                /\ UNCHANGED << queue, running, store, nextId, returned, children >> ]_vars

\* C6 witness: submit_subtasks has raised ValueError for a config that
\* follows a registered one.
C6_Witness ==
    /\ ret.op = "submit_subtasks"
    /\ ret.outcome = "ValueError"
    /\ ret.bad >= 2

\* C7: submit_subtasks in parallel mode with N registered configs returns N
\* pairwise distinct ids in config order, each the id of the message
\* published for its config, and get_task_status on a returned id yields a
\* status whose task_id is that id.
C7_ParallelIdsResolvable ==
    /\ [][ \A parent \in ParentIds, cfgs \in FamilyLists :
              SubmitSubtasks(parent, cfgs, TRUE, 0) =>
                  /\ ret'.outcome = "ok"
                  /\ Len(ret'.ids) = Len(cfgs)
                  /\ \A i, j \in 1 .. Len(cfgs) : i # j => ret'.ids[i] # ret'.ids[j]
                  /\ \A i \in 1 .. Len(cfgs) :
                        \E m \in queue' \ queue :
                            m.id = ret'.ids[i] /\ m.name = cfgs[i] ]_vars
    /\ [](\A c \in Callers :
              ( /\ ret.op = "submit_subtasks" /\ ret.parallel /\ ret.outcome = "ok"
                /\ gs[c].pc = "done"
                /\ gs[c].tid \in Range(ret.ids) ) =>
                  (gs[c].exc = "None" /\ gs[c].status.task_id = gs[c].tid))

\* C8: submit_subtasks in sequential mode returns exactly one id for every
\* number of registered configs, zero included, and it is the id of the
\* last stage of the chain.
C8_ChainReturnsOneId ==
    [][ \A parent \in ParentIds, cfgs \in ConfigLists :
            ( /\ \A i \in 1 .. Len(cfgs) : cfgs[i] \in Registered
              /\ SubmitSubtasks(parent, cfgs, FALSE, 0) ) =>
                /\ ret'.outcome = "ok"
                /\ Len(ret'.ids) = 1
                /\ ret'.ids[1] # NoId
                /\ \E m \in queue' \ queue :
                      IF m.chain = << >>
                      THEN m.id = ret'.ids[1] /\ m.name = cfgs[Len(cfgs)]
                      ELSE /\ m.chain[Len(m.chain)].id = ret'.ids[1]
                           /\ m.chain[Len(m.chain)].name = cfgs[Len(cfgs)] ]_vars

\* C9: the subtasks list get_task_status reports for a parent is as long as
\* the number of subtasks submitted under it: at least those submitted when
\* the call began, at most those submitted when it returned.
C9_SubtasksCounted ==
    \A c \in Callers :
        (gs[c].pc = "done" /\ gs[c].exc = "None") =>
            /\ gs[c].kids <= Len(gs[c].status.subtasks)
            /\ Len(gs[c].status.subtasks) <= children[gs[c].tid]

\* C10: when the broker refuses a publish during submit_subtasks the call
\* raises, hands its caller no ids and attributes no subtask to the parent.
C10_EnqueueFailureNoPartialIds ==
    [][ \A parent \in ParentIds, cfgs \in ConfigLists, parallel \in BOOLEAN,
           failAt \in 1 .. MaxConfigs :
            ( /\ \A i \in 1 .. Len(cfgs) : cfgs[i] \in Registered
              /\ SubmitSubtasks(parent, cfgs, parallel, failAt) ) =>
                /\ ret'.outcome = "OperationalError"
                /\ ret'.ids = << >>
                /\ UNCHANGED << returned, children >> ]_vars

\* C10 witness: a group's publish was refused after earlier publishes of the
\* same call had gone out, and no submit call has returned an id.
C10_Witness ==
    /\ ret.op = "submit_subtasks"
    /\ ret.outcome = "OperationalError"
    /\ queue # {}
    /\ returned = << >>

\* C11: every TaskStatus get_task_status or wait_for_task returns has not
\* both result and error, and has neither when its state is PENDING,
\* RECEIVED or STARTED.
C11_ResultErrorExclusive ==
    LET Exclusive(st) ==
            /\ ~(st.result # "None" /\ st.error.present)
            /\ st.state \in TaskState \ Terminal =>
                  (st.result = "None" /\ ~st.error.present)
    IN \A c \in Callers :
          /\ (gs[c].pc = "done" /\ gs[c].exc = "None") => Exclusive(gs[c].status)
          /\ (ws[c].pc = "done" /\ ws[c].exc = "None") => Exclusive(ws[c].status)

\* C12: a get_task_status call whose read of the raw state (line 119) finds
\* another state than PENDING returns a status with that state; a call that
\* returns another state than PENDING or TIMEOUT has neither revoked nor
\* notified; a returned result comes with state SUCCESS only, a returned
\* error with FAILURE, TIMEOUT or REVOKED only.
C12_PassThrough ==
    /\ [][ \A c \in Callers :
              (ReadState(c) /\ ReadMeta(c).status # "PENDING") =>
                  /\ gs'[c].exc = "None"
                  /\ gs'[c].status.state = ReadMeta(c).status ]_vars
    /\ [](\A c \in Callers :
              (gs[c].pc = "done" /\ gs[c].exc = "None") =>
                  /\ gs[c].status.state \notin { "PENDING", "TIMEOUT" } =>
                        (~gs[c].didRevoke /\ ~gs[c].didNotify)
                  /\ gs[c].status.result # "None" => gs[c].status.state = "SUCCESS"
                  /\ gs[c].status.error.present =>
                        gs[c].status.state \in { "FAILURE", "TIMEOUT", "REVOKED" })

\* C13: a wait_for_task call that returns, returns a state of SUCCESS,
\* FAILURE, TIMEOUT, REVOKED; after polls that returned PENDING, STARTED,
\* SUCCESS it returns SUCCESS with the result of the task.
C13_WaitReturnsTerminal ==
    \A c \in Callers :
        (ws[c].pc = "done" /\ ws[c].exc = "None") =>
            /\ ws[c].status.state \in Terminal
            /\ ws[c].seen = << "PENDING", "STARTED", "SUCCESS" >> =>
                  /\ ws[c].status.state = "SUCCESS"
                  /\ ws[c].status.result = "value"
                  /\ ~ws[c].status.error.present

\* C13 witness: a wait has returned after polling PENDING, STARTED, SUCCESS.
C13_Witness ==
    \E c \in Callers :
        /\ ws[c].pc = "done"
        /\ ws[c].exc = "None"
        /\ ws[c].seen = << "PENDING", "STARTED", "SUCCESS" >>

\* C14: wait_for_task with a positive timeout on a task polled as PENDING
\* goes on while the elapsed time is within the timeout and, at the first
\* poll past it, returns TIMEOUT with an error that says "timeout"; it has
\* then made at most timeout / poll_interval + 2 polls and the clock stands
\* at most at start_time + timeout + poll_interval; and the call ends.
C14_ClientTimeoutTerminates ==
    /\ [][ \A c \in Callers :
              ( /\ WaitCheck(c)
                /\ ws[c].timeout > 0
                /\ gs[c].exc = "None"
                /\ gs[c].status.state = "PENDING" ) =>
                  IF now - ws[c].start > ws[c].timeout
                  THEN /\ ws'[c].pc = "done"
                       /\ ws'[c].status.state = "TIMEOUT"
                       /\ ws'[c].status.error.present
                       /\ MentionsTimeout(ws'[c].status.error.text)
                  ELSE ws'[c].pc = "l184" ]_vars
    /\ [](\A c \in Callers :
              (ws[c].pc = "done" /\ ws[c].client) =>
                  /\ ws[c].npolls <= (ws[c].timeout \div ws[c].interval) + 2
                  /\ now <= ws[c].start + ws[c].timeout + ws[c].interval)
    /\ \A c \in Callers :
          (ws[c].pc = "l167" /\ ws[c].timeout > 0) ~> (ws[c].pc = "done")

\* C14 witness: a wait has returned from its client timeout after polling
\* PENDING more than once.
C14_Witness ==
    \E c \in Callers :
        /\ ws[c].pc = "done"
        /\ ws[c].client
        /\ ws[c].npolls >= 2
        /\ \A i \in 1 .. Len(ws[c].seen) : ws[c].seen[i] = "PENDING"

\* C15: the client timeout of wait_for_task leaves the result store, the
\* broker, the workers' revocations and the notifications as they were, and
\* a call that ends in it has issued no revoke and fired no notification.
C15_ClientTimeoutCallerSide ==
    /\ [][ \A c \in Callers :
              (WaitCheck(c) /\ ws'[c].client) =>
                  UNCHANGED << store, queue, running, revoked, revokes, notified >> ]_vars
    /\ [](\A c \in Callers :
              (ws[c].pc = "done" /\ ws[c].client) => ~ws[c].acted)

\* C15 witness: a wait has returned from its client timeout while the task
\* it waited for is executing.
C15_Witness ==
    \E c \in Callers :
        /\ ws[c].pc = "done"
        /\ ws[c].client
        /\ store[ws[c].tid].status = "STARTED"

\* C16: submit_task leaves its task PENDING in the store with a
\* submitted_at of the instant of submission; and a get_task_status call
\* that computes the wait of a task still PENDING more than
\* task_queue_timeout after its submission reclassifies it to TIMEOUT and
\* goes on to revoke it.
C16_SubmittedTaskTimesOut ==
    /\ [][ \A name \in TrackNames :
              (SubmitTask(name, FALSE) /\ ret'.outcome = "ok") =>
                  store'[ret'.ids[1]] = Meta("PENDING", "envelope", now) ]_vars
    /\ [][ \A c \in Callers :
              ( /\ CheckEnvelope(c)
                /\ submitted[gs[c].tid] >= 0
                /\ store[gs[c].tid].status = "PENDING"
                /\ now - submitted[gs[c].tid] > task_queue_timeout ) =>
                  /\ gs'[c].pc = "l137"
                  /\ gs'[c].status.state = "TIMEOUT" ]_vars

\* C17: a cleanup_task the file system answers without a fault returns
\* without an error and leaves neither the directory of its task id nor
\* anything below it, whatever was saved before and whether or not the
\* directory existed.
C17_CleanupLeavesNothing ==
    [][ \A id \in ScratchIds :
            CleanupTask(id, "none") =>
                /\ sret'.outcome = "ok"
                /\ ~sret'.logged
                /\ \A q \in Paths : IsPrefix(id, q) => fs'[q] = Absent ]_vars

\* C17 witness: a cleanup_task has removed a directory that held a file of
\* its own and a file under a subdirectory.
C17_Witness ==
    /\ sret.op = "cleanup_task"
    /\ sret.id = << "A" >>
    /\ { << "A", "f" >>, << "A", "d", "f" >> } \subseteq sret.removed
    /\ fs[<< "A" >>] = Absent

\* C18: save_task_data with a file name that has directory components
\* returns, the directories between the task directory and the file exist
\* afterwards and the file holds the data.
C18_SaveCreatesIntermediateDirs ==
    [][ \A id \in ScratchIds, name \in FileNames, data \in Bytes :
            (Len(name) > 1 /\ SaveTaskData(id, name, data)) =>
                /\ sret'.outcome = "ok"
                /\ \A q \in Prefixes(id \o name) \ { id \o name } : fs'[q] = Dir
                /\ Loaded(fs', id \o name) = [outcome |-> "ok", data |-> data] ]_vars

\* C19: for distinct task ids a and b, save_task_data and cleanup_task on a
\* create, change and delete no file below the directory of b, and leave
\* the directory of b in place.
C19_ScratchIsolation ==
    [][ \A a \in ScratchIds : \A b \in ScratchIds \ { a } :
            ( \/ \E name \in FileNames, data \in Bytes : SaveTaskData(a, name, data)
              \/ \E fault \in CleanupFaults : CleanupTask(a, fault) ) =>
                /\ fs[b] = Dir => fs'[b] = Dir
                /\ \A q \in Paths :
                      (IsPrefix(b, q) /\ q # b /\ (fs[q].kind = "file" \/ fs'[q].kind = "file"))
                          => fs'[q] = fs[q] ]_vars

\* C20: load_task_data right after save_task_data of the same id and name
\* returns the bytes saved, the latest ones after two saves; get_task_dir
\* returns the path of the id, the same at every call, and the directory
\* exists afterwards.
C20_ScratchRoundTrip ==
    /\ [][ \A id \in ScratchIds, name \in FileNames, data \in Bytes :
              SaveTaskData(id, name, data) =>
                  /\ sret'.outcome = "ok"
                  /\ Loaded(MkdirParents(fs', id), id \o name)
                        = [outcome |-> "ok", data |-> data] ]_vars
    /\ [][ \A id \in ScratchIds, name \in FileNames :
              LoadTaskData(id, name) =>
                  (fs[id \o name].kind = "file" =>
                      (sret'.outcome = "ok" /\ sret'.data = fs[id \o name].data)) ]_vars
    /\ [][ \A id \in ScratchIds :
              GetTaskDir(id) =>
                  (sret'.outcome = "ok" /\ sret'.path = id /\ fs'[id] = Dir) ]_vars

\* C21: cleanup_task returns normally whatever fault get_task_dir or
\* cleanup_task_dir meets, and a fault it met has been logged.
C21_CleanupNeverRaises ==
    [][ \A id \in ScratchIds, fault \in CleanupFaults :
            CleanupTask(id, fault) =>
                /\ sret'.outcome = "ok"
                /\ fault # "none" => sret'.logged ]_vars

\* C21 witness: a cleanup_task whose rmtree was refused, over a directory
\* that holds a file, has returned normally with the error logged.
C21_Witness ==
    /\ sret.op = "cleanup_task"
    /\ sret.fault = "rmtree"
    /\ sret.outcome = "ok"
    /\ sret.logged
    /\ \E q \in Paths : IsPrefix(sret.id, q) /\ fs[q].kind = "file"

\* C22: DELETE /api/v1/tasks/{task_id} calls cleanup_task once; it answers
\* 200 with the success confirmation when the deletion went through and
\* 500 when get_task_dir or rmtree failed.
C22_DeleteSurfacesFailure ==
    [][ \A id \in DeleteIds, fault \in CleanupFaults :
            ApiCleanupTask(id, fault) =>
                /\ http'.cleanups = 1
                /\ fault = "none" => (http'.code = 200 /\ http'.state = "success")
                /\ fault # "none" => http'.code = 500 ]_vars

\* C23: whichever of the webhook and email deliveries raise during a queue
\* timeout reclassification, get_task_status returns the TIMEOUT status
\* without an exception and the revoke has been issued.
C23_NotificationFailureSwallowed ==
    [][ \A c \in Callers, conf \in SUBSET Channels, failed \in SUBSET Channels :
            NotifyAdminTimeout(c, conf, failed) =>
                /\ gs'[c].pc = "done"
                /\ gs'[c].exc = "None"
                /\ gs'[c].status.state = "TIMEOUT"
                /\ gs'[c].didRevoke
                /\ revokes'[gs[c].tid] >= 1 ]_vars

\* C23 witness: a call has returned TIMEOUT after both deliveries raised,
\* with the revoke issued.
C23_Witness ==
    \E c \in Callers :
        /\ gs[c].pc = "done"
        /\ gs[c].undelivered = Channels
        /\ gs[c].exc = "None"
        /\ gs[c].status.state = "TIMEOUT"
        /\ revokes[gs[c].tid] >= 1

\* C24: a POST with sync = true whose task was submitted is answered only
\* once wait_for_task has returned, with status 200, the state
\* wait_for_task returned (a terminal one) and cleanup_task scheduled once;
\* a POST with sync = false is answered PENDING with no wait made and no
\* cleanup scheduled.
C24_SyncSubmitWaitsAndSchedules ==
    (http.op = "submit_task" /\ http.pc = "done" /\ http.tid # NoId) =>
        IF http.sync
        THEN \E c \in Waiters :
                /\ ws[c].pc = "done"
                /\ ws[c].tid = http.tid
                /\ ws[c].exc = "None"
                /\ http.code = 200
                /\ http.state = ws[c].status.state
                /\ http.state \in Terminal
                /\ http.scheduled = 1
        ELSE /\ http.code = 200
             /\ http.state = "PENDING"
             /\ http.scheduled = 0
             /\ \A c \in Waiters : ws[c].pc = "idle"

\* C25: once the pipeline has chosen its GPU stage, general, portrait and
\* landscape have each their own queue and task, every other category has
\* the default pair (gpu-general, gpu_inference_general), the choice raised
\* nothing and the GPU task is published as chosen.
C25_CategoryRoutingTotal ==
    LET pair == << pipe.gpu_queue, pipe.gpu_task_name >>
        expected ==
            CASE pipe.category = "general" -> << "gpu-general", "gpu_inference_general" >>
              [] pipe.category = "portrait" -> << "gpu-portrait", "gpu_inference_portrait" >>
              [] pipe.category = "landscape" -> << "gpu-landscape", "gpu_inference_landscape" >>
              [] OTHER -> << "gpu-general", "gpu_inference_general" >>
    IN
    /\ pipe.pc \in { "l85", "l95", "l104", "l112" } =>
          (pair = expected /\ pipe.exc = "None")
    /\ pipe.category # "none" => pipe.exc \notin { "KeyError", "AttributeError" }
    /\ Len(pipe.sent) >= 3 =>
          pipe.sent[3] = << expected[2], expected[1] >>

\* C25 witness: a run classified with a category outside the three known
\* ones has published gpu_inference_general on gpu-general and gone on.
C25_Witness ==
    /\ pipe.category = "other"
    /\ pipe.pc = "l95"
    /\ pipe.sent[3] = << "gpu_inference_general", "gpu-general" >>

\* C26: for every model name, whatever the number and interleaving of
\* load_model calls, the model is loaded at most once and every call
\* returns the same object.
C26_LoadModelOnce ==
    \A name \in ModelNames :
        /\ registry.loads[name] <= 1
        /\ Cardinality(registry.got[name]) <= 1

\* C27: once the first stage of a two-stage chain has failed, the store
\* holds FAILURE for the id submit_subtasks returned, and a wait_for_task
\* on that id without timeout that can still poll comes to return, with
\* FAILURE.
C27_ChainFailureSurfaces ==
    LET stageFailed == ret.op = "submit_subtasks" /\ ret.outcome = "ok"
                       /\ store[1].status = "FAILURE"
    IN
    /\ [](stageFailed => store[ret.ids[1]].status = "FAILURE")
    /\ \A c \in Waiters :
          (/\ stageFailed
           /\ ws[c].pc \in { "l167", "l170", "l184" }
           /\ ws[c].timeout = -1
           /\ ws[c].npolls < MaxWaitPolls)
             ~> (ws[c].pc = "done" /\ ws[c].status.state = "FAILURE")

\* C27 witness: a wait without timeout on the id of the chain has returned
\* FAILURE after the first stage failed; the last stage never ran.
C27_Witness ==
    \E c \in Waiters :
        /\ ret.op = "submit_subtasks"
        /\ ret.ids = << 2 >>
        /\ store[1].status = "FAILURE"
        /\ ws[c].pc = "done"
        /\ ws[c].tid = 2
        /\ ws[c].timeout = -1
        /\ ws[c].status.state = "FAILURE"
        /\ ws[c].seen[1] = "PENDING"

\* C28: a get_task_status call reclassifies (returns TIMEOUT, revokes and
\* notifies) exactly when it read PENDING with an envelope whose wait is
\* greater than task_queue_timeout; a call that measured a wait equal to
\* the threshold, read no envelope or asked for an id the store does not
\* know returns PENDING and neither revokes nor notifies.
C28_ReclassifiesOnlyPastThreshold ==
    /\ [](\A c \in Callers :
            /\ gs[c].pc \in { "l137", "l140" } =>
                  (gs[c].wait > task_queue_timeout /\ gs[c].status.state = "TIMEOUT")
            /\ (gs[c].pc = "done" /\ gs[c].exc = "None") =>
                  /\ gs[c].status.state = "TIMEOUT" <=> gs[c].wait > task_queue_timeout
                  /\ gs[c].didRevoke <=> gs[c].wait > task_queue_timeout
                  /\ gs[c].didNotify <=> gs[c].wait > task_queue_timeout
                  /\ (gs[c].wait >= 0 /\ gs[c].wait <= task_queue_timeout) =>
                        gs[c].status.state = "PENDING"
                  /\ gs[c].tid >= nextId =>
                        (gs[c].status.state = "PENDING" /\ gs[c].wait = -1))
    /\ [][ \A c \in Callers :
              (CheckEnvelope(c) /\ ReadMeta(c).kind # "envelope") =>
                  /\ gs'[c].pc = "done"
                  /\ gs'[c].status.state = "PENDING"
                  /\ ~gs'[c].didRevoke /\ ~gs'[c].didNotify
                  /\ revokes' = revokes /\ notified' = notified ]_vars
    /\ [][ \A c \in Callers :
              (CheckEnvelope(c) /\ ReadMeta(c).kind = "envelope") =>
                  (gs'[c].pc = "l137" <=> now - ReadMeta(c).at > task_queue_timeout) ]_vars

\* C28 witness: a call has measured a wait equal to the threshold and
\* returned PENDING without revoking or notifying.
C28_Witness ==
    \E c \in Callers :
        /\ gs[c].pc = "done"
        /\ gs[c].wait = task_queue_timeout
        /\ gs[c].status.state = "PENDING"
        /\ ~gs[c].didRevoke /\ ~gs[c].didNotify
        /\ revokes[gs[c].tid] = 0

\* C29: for every timeout T >= 0 handed to wait_for_task, T = 0 included,
\* a poll that returns a non-terminal state after more than T has passed
\* makes the call return TIMEOUT with the client timeout error.
C29_EveryTimeoutEnforced ==
    [][ \A c \in Waiters :
            (/\ WaitCheck(c)
             /\ gs[c].exc = "None"
             /\ gs[c].status.state \notin Terminal
             /\ ws[c].timeout >= 0
             /\ now - ws[c].start > ws[c].timeout) =>
                /\ ws'[c].pc = "done"
                /\ ws'[c].status.state = "TIMEOUT"
                /\ ws'[c].status.error = ClientTimeoutError ]_vars

\* C30: a wait_for_task call that returns a status has polled at least
\* once; a poll that returns a terminal state makes the call return that
\* very status, result and error included, however long past the timeout
\* it is, and a queue TIMEOUT of get_task_status keeps its own error.
C30_TerminalBeforeDeadline ==
    /\ [](\A c \in Waiters :
            (ws[c].pc = "done" /\ ws[c].exc = "None") => ws[c].npolls >= 1)
    /\ [][ \A c \in Waiters :
              (WaitCheck(c) /\ gs[c].exc = "None" /\ gs[c].status.state \in Terminal) =>
                  /\ ws'[c].pc = "done"
                  /\ ~ws'[c].client
                  /\ ws'[c].status = gs[c].status
                  /\ gs[c].status.state = "TIMEOUT" =>
                        ws'[c].status.error = QueueTimeoutError(gs[c].wait) ]_vars

\* C30 witness: a call with a timeout has returned SUCCESS with its result
\* from a poll made after the timeout had passed.
C30_Witness ==
    \E c \in Waiters :
        /\ ws[c].pc = "done"
        /\ ws[c].timeout > 0
        /\ now - ws[c].start > ws[c].timeout
        /\ ~ws[c].client
        /\ ws[c].status.state = "SUCCESS"
        /\ ws[c].status.result = "value"
        /\ ws[c].npolls >= 2

\* C31: within one wait_for_task call, before each poll after the first the
\* loop has slept once more, for poll_interval each time, so that two polls
\* are never back to back; and after the poll that ends the call no sleep
\* follows: a call that has ended has slept once less than it polled.
C31_OneSleepBetweenPolls ==
    /\ [](\A c \in Waiters :
            /\ ws[c].pc \in { "idle", "l167" } => ws[c].nsleeps = ws[c].npolls
            /\ ws[c].pc \in { "l170", "l184", "done" } =>
                  ws[c].nsleeps = ws[c].npolls - 1
            /\ ws[c].slept = ws[c].nsleeps * ws[c].interval
            /\ ws[c].pc # "idle" => now - ws[c].start = ws[c].slept)
    /\ [][ \A c \in Waiters :
              /\ WaitPoll(c) => (ws[c].npolls = 0 \/ ws[c].nsleeps = ws[c].npolls)
              /\ (ws[c].pc # "done" /\ ws'[c].pc = "done") =>
                    (ws'[c].nsleeps = ws[c].npolls - 1 /\ now' = now)
              /\ ws[c].pc = "done" => ws'[c] = ws[c] ]_vars

\* C31 witness: a call with the longer poll interval has returned from its
\* third poll, after two sleeps.
C31_Witness ==
    \E c \in Waiters :
        /\ ws[c].pc = "done"
        /\ ws[c].exc = "None"
        /\ ws[c].interval = MaxInterval
        /\ ws[c].npolls = 3
        /\ ws[c].nsleeps = 2
        /\ ws[c].slept = 2 * MaxInterval

\* C32: a task submit_task publishes without a queue override is on the
\* queue the route table gives its worker type: download_image and
\* upload_result on "io", classify_image and encode_result on "cpu", each
\* gpu_inference task on its GPU queue; never on the default queue.
C32_SubmitRoutesByWorkerType ==
    [][ LET expected(name) ==
                CASE name \in { "download_image", "upload_result" } -> "io"
                  [] name \in { "classify_image", "encode_result" } -> "cpu"
                  [] name = "gpu_inference_general" -> "gpu-general"
                  [] name = "gpu_inference_portrait" -> "gpu-portrait"
                  [] name = "gpu_inference_landscape" -> "gpu-landscape"
        IN \A name \in Registered :
               SubmitTask(name, FALSE) =>
                   \A m \in queue' \ queue :
                       /\ m.name = name
                       /\ m.queue = expected(name)
                       /\ m.queue # "celery" ]_vars

\* C33: a call of notify_admin_timeout or of notify_admin_failure attempts
\* one delivery on every configured channel, whichever deliveries raise,
\* none on a channel that is not configured, and ends without exception.
C33_EveryConfiguredChannelAttempted ==
    [][ \A conf \in SUBSET Channels : \A failed \in SUBSET conf :
            LET once == [ch \in Channels |-> IF ch \in conf THEN 1 ELSE 0] IN
            /\ \A c \in Callers :
                  NotifyAdminTimeout(c, conf, failed) =>
                      (gs'[c].attempts = once /\ gs'[c].exc = "None")
            /\ NotifyAdminFailure(conf, failed) =>
                  (mon'.note.attempts = once /\ mon'.note.exc = "None") ]_vars

\* C34: after any sequence of submit_task calls the tasks_submitted counter
\* equals the number of calls that returned an id: a successful call adds
\* one, a call that raises for an unregistered name adds nothing.
C34_SubmittedCounterCounts == mon.tasks_submitted = Len(returned)

\* C35: the state, result and error a get_task_status call returns are
\* those of one single store state, whatever the workers do between its
\* reads: a result only with SUCCESS, the exception text only with FAILURE,
\* and with PENDING or STARTED neither (TIMEOUT, made of a PENDING read,
\* carries the queue timeout text and no result).
C35_StatusIsOneSnapshot ==
    \A c \in Callers :
        (gs[c].pc = "done" /\ gs[c].exc = "None") =>
            LET st == gs[c].status IN
            \/ /\ st.state = "TIMEOUT"
               /\ st.result = "None"
               /\ st.error = QueueTimeoutError(gs[c].wait)
            \/ /\ st.state # "TIMEOUT"
               /\ st.result = (IF st.state = "SUCCESS" THEN "value" ELSE "None")
               /\ st.error = (IF st.state = "FAILURE" THEN ExcError ELSE NoError)

\* C36: when a get_task_status call issues its revoke, the store still
\* holds PENDING for the task and no worker is executing it: the revoke
\* terminates no task that has started, and a call that returns the queue
\* TIMEOUT returns it for a task that is still PENDING.
C36_RevokeOnlyWhilePending ==
    [][ \A c \in Callers :
            Revoke(c) =>
                /\ store[gs[c].tid].status = "PENDING"
                /\ \A m \in running : m.id # gs[c].tid
                /\ running' = running
                /\ store' = store ]_vars

\* C37: once a cleanup_task for a task id has completed (the file system
\* answered without a fault), the directory of the id stays absent:
\* whatever path lookup, save or load comes next, for that id or another,
\* the directory is still absent after it.
C37_CleanupIsFinal ==
    [][ \A id \in ScratchIds :
            (/\ sret.op = "cleanup_task"
             /\ sret.id = id
             /\ sret.fault = "none"
             /\ fs[id] = Absent) =>
                fs'[id] = Absent ]_vars

\* C38: when the broker refuses the k-th publish of a parallel
\* submit_subtasks call, the call leaves in the queue none of the k-1
\* messages it published before: the queue is as the call found it and no
\* worker is given a subtask of the call.
C38_NoOrphanedSubtasks ==
    [][ \A parent \in ParentIds, cfgs \in ConfigLists, failAt \in 1 .. MaxConfigs :
            ( /\ \A i \in 1 .. Len(cfgs) : cfgs[i] \in Registered
              /\ SubmitSubtasks(parent, cfgs, TRUE, failAt) ) =>
                /\ ret'.outcome = "OperationalError"
                /\ queue' = queue
                /\ running' = running ]_vars

\* C39: every task execution adds exactly one to tasks_completed, under
\* status "success" when the task body returned and under "failure", never
\* under "success", when it raised; and when the execution is over the
\* start time of the task id is gone from the table.
C39_CompletionCountedOnce ==
    [][ LET delta(l) == mon'.tasks_completed[l] - mon.tasks_completed[l]
            counted(status) ==
                /\ \E l \in CompletedLabels :
                      /\ l[2] = status
                      /\ delta(l) = 1
                      /\ \A k \in CompletedLabels \ { l } : delta(k) = 0
        IN \A m \in running :
               /\ WorkerSucceedOn(m, TRUE) =>
                     (counted("success") /\ m.id \notin mon'.start_times)
               /\ WorkerFailOn(m, TRUE) =>
                     (counted("failure") /\ m.id \notin mon'.start_times) ]_vars
====
